---- MODULE Spec2Model ----
(***************************************************************************)
(* A model of the browserslist-mcp edge worker (src/src/worker/index.ts):  *)
(* the WorkerServerResponse transport adapter, the REST router and its     *)
(* handlers, and the /mcp path that connects a per-request transport to    *)
(* the module-level mcpServer.                                             *)
(*                                                                         *)
(* The specifications:                                                     *)
(*   SpecAdapter  one WorkerServerResponse driven by an arbitrary bounded  *)
(*                sequence of setHeader / writeHead / flushHeaders /       *)
(*                write / end calls.                                       *)
(*   Spec         worker.fetch serving NReq concurrent requests (SpecLive  *)
(*                and SpecFair add the fairness of the event loop; SpecMcp *)
(*                adds two more ways the transport may treat a request).   *)
(*   SpecTools    the query facade, the input schema and the handlers of   *)
(*                the tools registered on the MCP server, called one at a  *)
(*                time.                                                    *)
(*   SpecFrontEnds  the Koa app and the worker answering the same REST     *)
(*                requests.                                                *)
(*   SpecProxy    the WorkerIncomingMessage built from a native request.   *)
(*   SpecEvents   one WorkerServerResponse with listeners registered and   *)
(*                events emitted between the other calls.                  *)
(***************************************************************************)
EXTENDS Integers, Sequences, FiniteSets, TLC

(***************************************************************************)
(* Bounds of the model.                                                    *)
(***************************************************************************)
MaxCalls == 4
NReq == 2

VARIABLES
    res,        \* SpecAdapter: the WorkerServerResponse under test
    calls,      \* SpecAdapter: history of the calls made on res, in call order
    req,        \* Spec: req[r], the Request handed to fetch in slot r (or NoRequest)
    pc,         \* Spec: pc[r], where the fetch call of slot r stands
    out,        \* Spec: out[r], what fetch settled with (or Pending)
    wres,       \* Spec: wres[r], the WorkerServerResponse created for slot r
    trace,      \* Spec: trace[r], the handlers invoked while serving slot r, in order
    connected,  \* Spec: the transport the shared mcpServer is connected to (0: none)
    streams,    \* Spec: streams[t], the JSON-RPC ids transport t holds an open response for
    inflight,   \* Spec: requests dispatched to mcpServer whose reply is not yet sent
    lost,       \* Spec: lost[r], a reply to slot r's message was dropped by the server
    thrown,     \* Spec: thrown[r], what was thrown inside handleMCPRequest's try block
    failure,    \* Spec: failure[r], whether the library failed internally while serving slot r
    mcpServer,  \* the tools and resources registered on the module-level McpServer
    fcall,      \* SpecTools: the last call of the query facade or the schema, with its outcome
    tcall,      \* SpecTools: the last tool call, with its result
    front,      \* SpecFrontEnds: a request and what the Koa app and the worker answer to it
    incoming    \* SpecProxy: a native request and the WorkerIncomingMessage built from it

vars == <<res, calls, req, pc, out, wres, trace, connected, streams, inflight, lost, thrown,
          failure, mcpServer, fcall, tcall, front, incoming>>
adapterVars == <<res, calls>>
workerVars == <<req, pc, out, wres, trace, connected, streams, inflight, lost, thrown,
                failure, mcpServer>>
toolVars == <<fcall, tcall>>
edgeVars == <<front, incoming>>

(***************************************************************************)
(* Values.  A string chunk handed to write/end is a sequence of code       *)
(* points, a Uint8Array a sequence of bytes; header names, JSON strings    *)
(* and error messages are TLA+ strings.                                    *)
(***************************************************************************)
Undefined == [t |-> "undefined"]
Str(s) == [t |-> "string", v |-> s]
Bytes(b) == [t |-> "bytes", v |-> b]

\* JSON values (a header value is a JSON string or number).
JNull == [t |-> "null"]
JStr(s) == [t |-> "string", v |-> s]
JNum(n) == [t |-> "number", v |-> n]
JArr(a) == [t |-> "array", v |-> a]
JObj(f) == [t |-> "object", v |-> f]
EmptyObject == JObj([k \in {} |-> JNull])

\* String(value) of setHeader: a number is printed in decimal, a string is itself.
String(value) == IF value.t = "number" THEN ToString(value.v) ELSE value.v

\* name.toLowerCase() on the header names the model uses.
toLowerCase(name) ==
    CASE name = "Content-Type" -> "content-type"
      [] name = "X-Id" -> "x-id"
      [] name = "Allow" -> "allow"
      [] name = "Access-Control-Allow-Origin" -> "access-control-allow-origin"
      [] name = "Access-Control-Allow-Methods" -> "access-control-allow-methods"
      [] name = "Access-Control-Allow-Headers" -> "access-control-allow-headers"
      [] name = "Access-Control-Max-Age" -> "access-control-max-age"
      [] name = "CONTENT-TYPE" -> "content-type"
      [] name = "Mcp-Session-Id" -> "mcp-session-id"
      [] name = "ACCEPT" -> "accept"
      [] OTHER -> name

\* new TextEncoder().encode(s): the UTF-8 bytes of one code point ...
Utf8(cp) ==
    IF cp < 128 THEN <<cp>>
    ELSE IF cp < 2048 THEN <<192 + (cp \div 64), 128 + (cp % 64)>>
    ELSE <<224 + (cp \div 4096), 128 + ((cp \div 64) % 64), 128 + (cp % 64)>>

\* ... and of a string.
RECURSIVE TextEncode(_)
TextEncode(s) == IF s = <<>> THEN <<>> ELSE Utf8(Head(s)) \o TextEncode(Tail(s))

\* JavaScript truthiness of end()'s optional chunk: undefined and "" are falsy,
\* every Uint8Array (the empty one too) is an object and truthy.
Truthy(chunk) ==
    CASE chunk.t = "undefined" -> FALSE
      [] chunk.t = "string" -> chunk.v # <<>>
      [] OTHER -> TRUE

(***************************************************************************)
(* WorkerServerResponse.  `resolved` and `response` are the state of       *)
(* _responsePromise: pending, or resolved with a Response.                 *)
(***************************************************************************)
NoResponse == [status |-> 0, headers |-> [n \in {} |-> ""], body |-> [t |-> "null"]]

\* (heard is no field of the class: it is the record of the listener calls made so
\* far, each with the event and the arguments the listener was called for.)
NewWorkerServerResponse ==
    [statusCode |-> 200,
     headers |-> [n \in {} |-> ""],
     chunks |-> <<>>,
     headersSent |-> FALSE,
     eventListeners |-> [e \in {} |-> <<>>],
     heard |-> <<>>,
     resolved |-> FALSE,
     response |-> NoResponse]

\* Two faulty variants of setHeader: the name kept in the case it was given in, and
\* the first value kept instead of the last.
setHeader_NoLowerCase(w, name, value) ==
    [w EXCEPT !.headers = (name :> String(value)) @@ @]

setHeader_KeepFirst(w, name, value) ==
    [w EXCEPT !.headers = @ @@ (toLowerCase(name) :> String(value))]

setHeader(w, name, value) ==
    [w EXCEPT !.headers = (toLowerCase(name) :> String(value)) @@ @]

\* Object.entries(headers) in insertion order, each entry through setHeader.
RECURSIVE SetAll(_, _)
SetAll(w, entries) ==
    IF entries = <<>> THEN w
    ELSE SetAll(setHeader(w, Head(entries)[1], Head(entries)[2]), Tail(entries))

\* (writeHead_OnceOnly is the faulty variant that keeps the status of the first
\* writeHead.)
writeHead_OnceOnly(w, statusCode, hdrs) ==
    LET w1 == IF w.headersSent THEN w ELSE [w EXCEPT !.statusCode = statusCode]
        w2 == IF hdrs = Undefined THEN w1 ELSE SetAll(w1, hdrs.v)
    IN  [w2 EXCEPT !.headersSent = TRUE]

writeHead(w, statusCode, hdrs) ==
    LET w1 == [w EXCEPT !.statusCode = statusCode]
        w2 == IF hdrs = Undefined THEN w1 ELSE SetAll(w1, hdrs.v)
    IN  [w2 EXCEPT !.headersSent = TRUE]

flushHeaders(w) == [w EXCEPT !.headersSent = TRUE]

\* (write_UntilEnd is the faulty variant that buffers nothing once the response is
\* materialized.)
write_UntilEnd(w, chunk) ==
    IF w.resolved THEN w
    ELSE [w EXCEPT !.chunks =
             Append(@, IF chunk.t = "string" THEN TextEncode(chunk.v) ELSE chunk.v)]

\* A faulty variant of write: the chunk put in front of the buffer.
write_Prepend(w, chunk) ==
    [w EXCEPT !.chunks =
        <<IF chunk.t = "string" THEN TextEncode(chunk.v) ELSE chunk.v>> \o @]

write(w, chunk) ==
    [w EXCEPT !.chunks =
        Append(@, IF chunk.t = "string" THEN TextEncode(chunk.v) ELSE chunk.v)]

\* What write returns: true, whatever the chunk and the state.
writeReturn(w, chunk) == TRUE

\* The body of end(): one Uint8Array of totalLength, each chunk copied at its offset.
RECURSIVE Concatenate(_)
Concatenate(chunks) ==
    IF chunks = <<>> THEN <<>> ELSE Head(chunks) \o Concatenate(Tail(chunks))

\* _responseResolve(response): resolving a promise a second time changes nothing.
\* (Resolve_Overwrite is the faulty variant in which the last resolution wins.)
Resolve_Overwrite(w, response) ==
    [w EXCEPT !.resolved = TRUE, !.response = response]

Resolve(w, response) ==
    IF w.resolved THEN w
    ELSE [w EXCEPT !.resolved = TRUE, !.response = response]

\* new Headers(init): names are case-insensitive and kept in lower case.  (No caller
\* in the worker passes two names that differ only in case.)
Headers(init) ==
    [ln \in {toLowerCase(n) : n \in DOMAIN init} |->
        init[CHOOSE n \in DOMAIN init : toLowerCase(n) = ln]]

\* new Response(body, {status, headers}): the Response holds its own copies.
Response(body, status, headers) ==
    [status |-> status, headers |-> Headers(headers), body |-> body]

end(w, chunk) ==
    LET w1 == IF Truthy(chunk) THEN write(w, chunk) ELSE w
    IN  Resolve(w1, Response(Bytes(Concatenate(w1.chunks)), w1.statusCode, w1.headers))

\* (on_Unshift is the faulty variant that puts the new listener first.)
on_Unshift(w, event, listener) ==
    [w EXCEPT !.eventListeners =
        IF event \in DOMAIN @ THEN [@ EXCEPT ![event] = <<listener>> \o @]
        ELSE (event :> <<listener>>) @@ @]

\* on(event, listener): the listener goes to the end of the event's array, which is
\* created for the event's first listener.
on(w, event, listener) ==
    [w EXCEPT !.eventListeners =
        IF event \in DOMAIN @ THEN [@ EXCEPT ![event] = Append(@, listener)]
        ELSE (event :> <<listener>>) @@ @]

\* emit(event, ...args): listeners.forEach(listener => listener(...args)), when the
\* event has an array.  A listener is opaque: calling it is recorded and has no
\* other effect.
emit(w, event, args) ==
    IF event \in DOMAIN w.eventListeners
    THEN LET listeners == w.eventListeners[event]
         IN  [w EXCEPT !.heard = @ \o [i \in 1..Len(listeners) |->
                                         [listener |-> listeners[i], event |-> event,
                                          args |-> args]]]
    ELSE w

\* What emit returns.
emitReturn(w, event, args) == event \in DOMAIN w.eventListeners

\* getResponse(): the promise; what an awaiter sees once it is resolved.
getResponse(w) == w.response

(***************************************************************************)
(* SpecAdapter: the calls a handler can make on one WorkerServerResponse.  *)
(* The status codes are ones StreamableHTTPServerTransport, the only       *)
(* caller of this module-private class, writes (200, 400).                 *)
(***************************************************************************)
WriteChunks == {Str(<<97>>), Str(<<233>>), Bytes(<<0>>)}
EndChunks == {Undefined, Str(<<>>), Str(<<99>>), Bytes(<<255>>)}
HeaderNames == {"Content-Type", "content-type", "X-Id"}
HeaderValues == {JStr("a"), JNum(7)}
StatusCodes == {200, 400}
HeaderBatches ==
    {Undefined,
     [t |-> "object", v |-> <<<<"Content-Type", JStr("b")>>>>],
     [t |-> "object", v |-> <<<<"x-id", JNum(8)>>, <<"X-Id", JStr("c")>>>>]}

CallSetHeader ==
    /\ Len(calls) < MaxCalls
    /\ \E name \in HeaderNames, value \in HeaderValues :
          /\ res' = setHeader(res, name, value)
          /\ calls' = Append(calls, [op |-> "setHeader", name |-> name, value |-> value])
    /\ UNCHANGED <<workerVars, toolVars, edgeVars>>

\* (writeHead stores the status and the headers independently of each other: each
\* batch of headers is tried with one status, no headers with both.)
CallWriteHead ==
    /\ Len(calls) < MaxCalls
    /\ \E statusCode \in StatusCodes, hdrs \in HeaderBatches :
          /\ IF hdrs = Undefined THEN TRUE ELSE (statusCode = 400 <=> Len(hdrs.v) = 1)
          /\ res' = writeHead(res, statusCode, hdrs)
          /\ calls' = Append(calls, [op |-> "writeHead", statusCode |-> statusCode,
                                     headers |-> hdrs])
    /\ UNCHANGED <<workerVars, toolVars, edgeVars>>

CallFlushHeaders ==
    /\ Len(calls) < MaxCalls
    /\ res' = flushHeaders(res)
    /\ calls' = Append(calls, [op |-> "flushHeaders"])
    /\ UNCHANGED <<workerVars, toolVars, edgeVars>>

CallWrite ==
    /\ Len(calls) < MaxCalls
    /\ \E chunk \in WriteChunks :
          /\ res' = write(res, chunk)
          /\ calls' = Append(calls, [op |-> "write", chunk |-> chunk,
                                     returned |-> writeReturn(res, chunk)])
    /\ UNCHANGED <<workerVars, toolVars, edgeVars>>

CallEnd ==
    /\ Len(calls) < MaxCalls
    /\ \E chunk \in EndChunks :
          /\ res' = end(res, chunk)
          /\ calls' = Append(calls, [op |-> "end", chunk |-> chunk])
    /\ UNCHANGED <<workerVars, toolVars, edgeVars>>

NextAdapter ==
    \/ CallSetHeader
    \/ CallWriteHead
    \/ CallFlushHeaders
    \/ CallWrite
    \/ CallEnd

(***************************************************************************)
(* SpecEvents: listeners registered and events emitted on one              *)
(* WorkerServerResponse, between calls of its other methods (one call of   *)
(* each is enough here: no argument of theirs has to do with listeners).   *)
(***************************************************************************)
Events == {"close", "error"}
Listeners == {1, 2}
EmitArguments == {<<>>, <<"reason">>}
OtherCalls ==
    {[op |-> "setHeader", name |-> "Content-Type", value |-> JStr("a")],
     [op |-> "writeHead", statusCode |-> 400, headers |-> Undefined],
     [op |-> "flushHeaders"],
     [op |-> "write", chunk |-> Str(<<97>>), returned |-> TRUE],
     [op |-> "end", chunk |-> Str(<<99>>)]}

CallOn ==
    /\ Len(calls) < MaxCalls
    /\ \E event \in Events, listener \in Listeners :
          /\ res' = on(res, event, listener)
          /\ calls' = Append(calls, [op |-> "on", event |-> event, listener |-> listener])
    /\ UNCHANGED <<workerVars, toolVars, edgeVars>>

CallEmit ==
    /\ Len(calls) < MaxCalls
    /\ \E event \in Events, args \in EmitArguments :
          /\ res' = emit(res, event, args)
          /\ calls' = Append(calls, [op |-> "emit", event |-> event, args |-> args,
                                     returned |-> emitReturn(res, event, args)])
    /\ UNCHANGED <<workerVars, toolVars, edgeVars>>

CallOther ==
    /\ Len(calls) < MaxCalls
    /\ \E call \in OtherCalls :
          /\ res' = CASE call.op = "setHeader" -> setHeader(res, call.name, call.value)
                      [] call.op = "writeHead" ->
                            writeHead(res, call.statusCode, call.headers)
                      [] call.op = "flushHeaders" -> flushHeaders(res)
                      [] call.op = "write" -> write(res, call.chunk)
                      [] call.op = "end" -> end(res, call.chunk)
          /\ calls' = Append(calls, call)
    /\ UNCHANGED <<workerVars, toolVars, edgeVars>>

NextEvents ==
    \/ CallOn
    \/ CallEmit
    \/ CallOther

(***************************************************************************)
(* Thrown errors and the results of calls that may throw.                  *)
(***************************************************************************)
Ok(v) == [ok |-> TRUE, value |-> v]
\* throw new Error(message) (SyntaxError, TypeError, ZodError are Errors too)
Throw(message) == [ok |-> FALSE, error |-> [instanceofError |-> TRUE, message |-> message]]
\* error instanceof Error ? error.message : fallback
MessageOf(error, fallback) == IF error.instanceofError THEN error.message ELSE fallback

\* (Falsy_EmptyArray is the faulty variant that takes an empty array for falsy.)
Falsy_EmptyArray(v) ==
    \/ v.t = "null"
    \/ v.t = "string" /\ v.v = ""
    \/ v.t = "number" /\ v.v = 0
    \/ v.t = "array" /\ v.v = <<>>

\* JavaScript truthiness of a JSON value (objects and arrays are truthy).
Falsy(v) ==
    \/ v.t = "null"
    \/ v.t = "string" /\ v.v = ""
    \/ v.t = "number" /\ v.v = 0

\* Property read on an object; undefined otherwise.
Get(obj, key) ==
    IF obj.t = "object" /\ key \in DOMAIN obj.v THEN obj.v[key] ELSE Undefined

(***************************************************************************)
(* The browserslist library on the inputs of the model (an external        *)
(* collaborator: a list of browsers or a thrown BrowserslistError).  A     *)
(* call into it may also fail for a reason that has nothing to do with its *)
(* input; the environment chooses that with `fault`.                       *)
(***************************************************************************)
Faults == {"none", "internal"}
InternalFailure == Throw("Cannot read properties of undefined")

\* An empty query selects no browser.
browserslist(query, opts, fault) ==
    IF fault = "internal" THEN InternalFailure
    ELSE CASE query = "last 1 version" -> Ok(<<"chrome 141", "firefox 144", "safari 26.0">>)
           [] query = "defaults" -> Ok(<<"chrome 141", "chrome 140", "firefox 144">>)
           [] query = "" -> Ok(<<>>)
           [] OTHER -> Throw("Unknown browser query: " \o query)

\* browserslist.coverage: the usage share (here in hundredths of a percent) of the
\* listed browsers; an element that is no string has no .replace and throws.
browserslist_coverage(browsers, fault) ==
    IF fault = "internal" THEN InternalFailure
    ELSE IF \E i \in 1..Len(browsers) : browsers[i].t # "string"
    THEN Throw("i.replace is not a function")
    ELSE Ok(JNum(37 * Cardinality({i \in 1..Len(browsers) :
                                     browsers[i].v \in {"chrome 90", "firefox 88"}})))

\* browserslist.defaults.join(', ')
browserslist_defaults_join(sep, fault) ==
    IF fault = "internal" THEN InternalFailure
    ELSE Ok("> 0.5%" \o sep \o "last 2 versions" \o sep \o "Firefox ESR" \o sep \o "not dead")

(***************************************************************************)
(* Query facade (src/src/utils/browserslist.ts) and the input schema.      *)
(***************************************************************************)
\* (OptionalString_Nullable is the faulty variant that lets null through.)
OptionalString_Nullable(v) == v = Undefined \/ v.t \in {"string", "null"}

OptionalString(v) == v = Undefined \/ v.t = "string"

\* BrowserslistQuerySchema.parse: the parsed value holds the declared keys only.
BrowserslistQuerySchema_parse(body) ==
    LET query == Get(body, "query")
        options == Get(body, "options")
    IN  IF body.t # "object" THEN Throw("Expected object, received " \o body.t)
        ELSE IF query = Undefined THEN Throw("query: Required")
        ELSE IF query.t # "string"
             THEN Throw("query: Expected string, received " \o query.t)
        ELSE IF options = Undefined THEN Ok(JObj("query" :> query))
        ELSE IF options.t # "object"
             THEN Throw("options: Expected object, received " \o options.t)
        ELSE IF ~OptionalString(Get(options, "env"))
             THEN Throw("options.env: Expected string, received " \o Get(options, "env").t)
        ELSE IF ~OptionalString(Get(options, "path"))
             THEN Throw("options.path: Expected string, received " \o Get(options, "path").t)
        ELSE Ok(JObj(("query" :> query) @@
                     ("options" :> JObj([k \in DOMAIN options.v \cap {"env", "path"} |->
                                            options.v[k]]))))

StringArray(list) == JArr([i \in 1..Len(list) |-> JStr(list[i])])

\* (executeBrowserslistQuery_Filtered is the faulty variant that leaves out all but
\* the newest version of a browser.)
executeBrowserslistQuery_Filtered(input, fault) ==
    LET query == Get(input, "query").v
        options == Get(input, "options")
        browsers == browserslist(query, [env |-> Get(options, "env"),
                                         path |-> Get(options, "path")], fault)
        newest == SelectSeq(browsers.value, LAMBDA b : b # "chrome 140")
    IN  IF browsers.ok
        THEN Ok(JObj(("browsers" :> StringArray(newest)) @@
                     ("query" :> JStr(query)) @@
                     ("count" :> JNum(Len(newest)))))
        ELSE Throw("Failed to execute browserslist query: " \o
                   MessageOf(browsers.error, "unknown"))

executeBrowserslistQuery(input, fault) ==
    LET query == Get(input, "query").v
        options == Get(input, "options")
        browsers == browserslist(query, [env |-> Get(options, "env"),
                                         path |-> Get(options, "path")], fault)
    IN  IF browsers.ok
        THEN Ok(JObj(("browsers" :> StringArray(browsers.value)) @@
                     ("query" :> JStr(query)) @@
                     ("count" :> JNum(Len(browsers.value)))))
        ELSE Throw("Failed to execute browserslist query: " \o
                   MessageOf(browsers.error, "unknown"))

\* (no try/catch here: what the join throws goes to the caller as it is)
getBrowserslistDefaults(fault) == browserslist_defaults_join(", ", fault)

getBrowserslistCoverage(browsers, fault) ==
    LET coverage == browserslist_coverage(browsers, fault)
    IN  IF coverage.ok THEN Ok(JObj("coverage" :> coverage.value))
        ELSE Throw("Failed to get coverage: " \o MessageOf(coverage.error, "unknown"))

(***************************************************************************)
(* JSON text.  A text is a sequence of tokens: punctuation, string         *)
(* literals, number literals, or a run of characters that is no JSON (the  *)
(* sentences the tool handlers build with template strings).               *)
(***************************************************************************)
Punct(p) == [k |-> "punct", p |-> p]
StrTok(s) == [k |-> "str", s |-> s]
NumTok(n) == [k |-> "num", n |-> n]
Raw(text) == [k |-> "raw", raw |-> text]

RECURSIVE SeqOf(_)
SeqOf(set) ==
    IF set = {} THEN <<>>
    ELSE LET x == CHOOSE y \in set : TRUE IN <<x>> \o SeqOf(set \ {x})

\* The keys of an object, in the order JSON.stringify walks them.
Keys(obj) == SeqOf(DOMAIN obj.v)

\* JSON.stringify(value, null, 2), white space left out.
RECURSIVE JSON_stringify(_)
RECURSIVE StringifyElements(_)
RECURSIVE StringifyMembers(_, _)
StringifyElements(elements) ==
    IF elements = <<>> THEN <<>>
    ELSE JSON_stringify(Head(elements))
         \o (IF Len(elements) > 1 THEN <<Punct(",")>> ELSE <<>>)
         \o StringifyElements(Tail(elements))

StringifyMembers(obj, keys) ==
    IF keys = <<>> THEN <<>>
    ELSE <<StrTok(Head(keys)), Punct(":")>> \o JSON_stringify(obj.v[Head(keys)])
         \o (IF Len(keys) > 1 THEN <<Punct(",")>> ELSE <<>>)
         \o StringifyMembers(obj, Tail(keys))

JSON_stringify(value) ==
    CASE value.t = "null" -> <<Punct("null")>>
      [] value.t = "string" -> <<StrTok(value.v)>>
      [] value.t = "number" -> <<NumTok(value.v)>>
      [] value.t = "array" -> <<Punct("[")>> \o StringifyElements(value.v) \o <<Punct("]")>>
      [] value.t = "object" ->
            <<Punct("{")>> \o StringifyMembers(value, Keys(value)) \o <<Punct("}")>>

\* JSON.parse(text): a recursive-descent parser.  Each step yields the value read
\* and the tokens left, or fails.
Parsed(value, rest) == [ok |-> TRUE, value |-> value, rest |-> rest]
NotParsed == [ok |-> FALSE, value |-> JNull, rest |-> <<>>]
IsPunct(tokens, p) == tokens # <<>> /\ Head(tokens).k = "punct" /\ Head(tokens).p = p

RECURSIVE ParseValue(_)
RECURSIVE ParseElements(_, _)
RECURSIVE ParseMembers(_, _)
ParseElements(tokens, acc) ==
    LET element == ParseValue(tokens)
    IN  IF ~element.ok THEN NotParsed
        ELSE IF IsPunct(element.rest, ",")
             THEN ParseElements(Tail(element.rest), Append(acc, element.value))
        ELSE IF IsPunct(element.rest, "]")
             THEN Parsed(JArr(Append(acc, element.value)), Tail(element.rest))
        ELSE NotParsed

ParseMembers(tokens, acc) ==
    IF Len(tokens) < 3 \/ tokens[1].k # "str" \/ ~IsPunct(Tail(tokens), ":") THEN NotParsed
    ELSE LET member == ParseValue(SubSeq(tokens, 3, Len(tokens)))
             fields == (tokens[1].s :> member.value) @@ acc
         IN  IF ~member.ok THEN NotParsed
             ELSE IF IsPunct(member.rest, ",") THEN ParseMembers(Tail(member.rest), fields)
             ELSE IF IsPunct(member.rest, "}") THEN Parsed(JObj(fields), Tail(member.rest))
             ELSE NotParsed

ParseValue(tokens) ==
    IF tokens = <<>> THEN NotParsed
    ELSE LET token == Head(tokens)
             rest == Tail(tokens)
         IN  CASE token.k = "str" -> Parsed(JStr(token.s), rest)
               [] token.k = "num" -> Parsed(JNum(token.n), rest)
               [] token.k = "raw" -> NotParsed
               [] token.p = "null" -> Parsed(JNull, rest)
               [] token.p = "[" ->
                     IF IsPunct(rest, "]") THEN Parsed(JArr(<<>>), Tail(rest))
                     ELSE ParseElements(rest, <<>>)
               [] token.p = "{" ->
                     IF IsPunct(rest, "}") THEN Parsed(EmptyObject, Tail(rest))
                     ELSE ParseMembers(rest, [key \in {} |-> JNull])
               [] OTHER -> NotParsed

JSON_parse(text) ==
    LET parsed == ParseValue(text)
    IN  IF parsed.ok /\ parsed.rest = <<>> THEN Ok(parsed.value)
        ELSE Throw("Unexpected token in JSON")

(***************************************************************************)
(* The MCP server: createMCPServer registers three tools and two           *)
(* resources on a new McpServer.  A tool handler is the callback given to  *)
(* registerTool; the SDK calls it with arguments that passed inputSchema.  *)
(***************************************************************************)
NewMcpServer == [tools |-> {}, resources |-> {}, registrations |-> <<>>]

\* (registerTool_Replace is the faulty variant that forgets the tools registered
\* before.)
registerTool_Replace(server, name) ==
    [server EXCEPT !.tools = {name}, !.registrations = Append(@, name)]

registerTool(server, name) ==
    [server EXCEPT !.tools = @ \cup {name}, !.registrations = Append(@, name)]

registerResource(server, uri) ==
    [server EXCEPT !.resources = @ \cup {uri}, !.registrations = Append(@, uri)]

createMCPServer ==
    LET server1 == registerTool(NewMcpServer, "query_browsers")
        server2 == registerTool(server1, "get_defaults")
        server3 == registerTool(server2, "get_coverage")
        server4 == registerResource(server3, "browserslist://documentation")
    IN  registerResource(server4, "browserslist://examples")

\* What a tool handler returns.  isError is absent from a success (FALSE here),
\* structuredContent from a failure (Undefined here).
ToolResult(text, structuredContent, isError) ==
    [content |-> <<[type |-> "text", text |-> text]>>,
     structuredContent |-> structuredContent,
     isError |-> isError]

\* error instanceof Error ? error.message : String(error); the message of a thrown
\* value that is no Error stands for its String().
ErrorText(error) == error.message

\* The catch block the three handlers share.
toolError(error) == ToolResult(<<Raw("Error: " \o ErrorText(error))>>, Undefined, TRUE)

\* { query, options } of the handler's arguments
QueryInput(args) == JObj([key \in DOMAIN args.v \cap {"query", "options"} |-> args.v[key]])

\* (query_browsers_ListText is the faulty variant whose text holds the list only.)
query_browsers_ListText(args, fault) ==
    LET result == executeBrowserslistQuery(QueryInput(args), fault)
    IN  IF result.ok
        THEN Ok(ToolResult(JSON_stringify(result.value.v["browsers"]), result.value, FALSE))
        ELSE Ok(toolError(result.error))

query_browsers(args, fault) ==
    LET result == executeBrowserslistQuery(QueryInput(args), fault)
    IN  IF result.ok
        THEN Ok(ToolResult(JSON_stringify(result.value), result.value, FALSE))
        ELSE Ok(toolError(result.error))

get_defaults(args, fault) ==
    LET defaults == getBrowserslistDefaults(fault)
    IN  IF defaults.ok
        THEN Ok(ToolResult(<<Raw("Default browserslist query: " \o defaults.value)>>,
                           JObj("defaults" :> JStr(defaults.value)), FALSE))
        ELSE Ok(toolError(defaults.error))

\* (get_coverage_NoCatch is the faulty variant without the try/catch.)
get_coverage_NoCatch(args, fault) ==
    LET coverage == getBrowserslistCoverage(Get(args, "browsers").v, fault)
    IN  IF coverage.ok
        THEN Ok(ToolResult(JSON_stringify(coverage.value), coverage.value, FALSE))
        ELSE coverage

get_coverage(args, fault) ==
    LET coverage == getBrowserslistCoverage(Get(args, "browsers").v, fault)
    IN  IF coverage.ok
        THEN Ok(ToolResult(JSON_stringify(coverage.value), coverage.value, FALSE))
        ELSE Ok(toolError(coverage.error))

(***************************************************************************)
(* The calls of SpecTools: the facade functions and the schema called      *)
(* directly, and the tool handlers called by the server for a tool that is *)
(* registered.                                                             *)
(***************************************************************************)
Call(op, input, fault, facade, outcome) ==
    [op |-> op, input |-> input, fault |-> fault, facade |-> facade, outcome |-> outcome]
NotCalled == [ok |-> FALSE, error |-> [instanceofError |-> FALSE, message |-> "not called"]]
NoCall == Call("none", Undefined, "none", NotCalled, NotCalled)

EnvValues == {JStr("production"), JNum(1), JNull}
OptionsValues ==
    {JNull, JStr("production"), JArr(<<>>), EmptyObject}
    \cup {JObj("env" :> e) : e \in EnvValues}
    \cup {JObj("path" :> e) : e \in EnvValues}
    \cup {JObj(("env" :> e) @@ ("path" :> f)) : e, f \in EnvValues}
SchemaInputs ==
    {JNull, JStr("defaults"), JArr(<<>>), EmptyObject,
     JObj("query" :> JNum(5)), JObj("query" :> JNull), JObj("query" :> JStr("")),
     JObj("query" :> JStr("defaults")), JObj("options" :> EmptyObject),
     JObj(("query" :> JStr("defaults")) @@ ("extra" :> JNum(1)))}
    \cup {JObj(("query" :> JStr("defaults")) @@ ("options" :> o)) : o \in OptionsValues}

Queries == {"last 1 version", "defaults", "invalid query syntax 123456", ""}
QueryArgs ==
    {JObj("query" :> JStr(q)) : q \in Queries}
    \cup {JObj(("query" :> JStr(q)) @@ ("options" :> o)) :
            q \in Queries, o \in {EmptyObject, JObj("env" :> JStr("production"))}}
BrowserLists ==
    {<<>>, <<JStr("chrome 90")>>, <<JStr("chrome 90"), JStr("firefox 88")>>,
     <<JStr("netscape 4")>>}

ParseSchema ==
    /\ \E input \in SchemaInputs :
          fcall' = Call("BrowserslistQuerySchema.parse", input, "none", NotCalled,
                        BrowserslistQuerySchema_parse(input))
    /\ UNCHANGED <<tcall, workerVars, adapterVars, edgeVars>>

ExecuteQuery ==
    /\ \E input \in QueryArgs, fault \in Faults :
          fcall' = Call("executeBrowserslistQuery", input, fault, NotCalled,
                        executeBrowserslistQuery(input, fault))
    /\ UNCHANGED <<tcall, workerVars, adapterVars, edgeVars>>

GetDefaults ==
    /\ \E fault \in Faults :
          fcall' = Call("getBrowserslistDefaults", Undefined, fault, NotCalled,
                        getBrowserslistDefaults(fault))
    /\ UNCHANGED <<tcall, workerVars, adapterVars, edgeVars>>

GetCoverage ==
    /\ \E browsers \in BrowserLists \cup {<<JNum(1)>>}, fault \in Faults :
          fcall' = Call("getBrowserslistCoverage", JArr(browsers), fault, NotCalled,
                        getBrowserslistCoverage(browsers, fault))
    /\ UNCHANGED <<tcall, workerVars, adapterVars, edgeVars>>

CallQueryBrowsers ==
    /\ "query_browsers" \in mcpServer.tools
    /\ \E args \in QueryArgs, fault \in Faults :
          tcall' = Call("query_browsers", args, fault,
                        executeBrowserslistQuery(QueryInput(args), fault),
                        query_browsers(args, fault))
    /\ UNCHANGED <<fcall, workerVars, adapterVars, edgeVars>>

CallGetDefaults ==
    /\ "get_defaults" \in mcpServer.tools
    /\ \E fault \in Faults :
          tcall' = Call("get_defaults", EmptyObject, fault,
                        getBrowserslistDefaults(fault),
                        get_defaults(EmptyObject, fault))
    /\ UNCHANGED <<fcall, workerVars, adapterVars, edgeVars>>

CallGetCoverage ==
    /\ "get_coverage" \in mcpServer.tools
    /\ \E browsers \in BrowserLists, fault \in Faults :
          LET args == JObj("browsers" :> JArr(browsers))
          IN  tcall' = Call("get_coverage", args, fault,
                            getBrowserslistCoverage(browsers, fault),
                            get_coverage(args, fault))
    /\ UNCHANGED <<fcall, workerVars, adapterVars, edgeVars>>

NextTools ==
    \/ ParseSchema
    \/ ExecuteQuery
    \/ GetDefaults
    \/ GetCoverage
    \/ CallQueryBrowsers
    \/ CallGetDefaults
    \/ CallGetCoverage

(***************************************************************************)
(* Responses of the worker.  A body is null, the text JSON.stringify made  *)
(* of a value (kept as that value), a fixed text, or bytes.                *)
(***************************************************************************)
NullBody == [t |-> "null"]
JsonBody(data) == [t |-> "json", v |-> data]
TextBody(text) == [t |-> "text", v |-> text]

corsHeaders ==
    ("Access-Control-Allow-Origin" :> "*") @@
    ("Access-Control-Allow-Methods" :> "GET, POST, DELETE, OPTIONS") @@
    ("Access-Control-Allow-Headers" :> "Content-Type, Authorization, Mcp-Session-Id") @@
    ("Access-Control-Max-Age" :> "86400")

jsonResponse(data, status) ==
    Response(JsonBody(data), status, ("Content-Type" :> "application/json") @@ corsHeaders)

\* (errorResponse_Bare is the faulty variant that sends the message without the
\* {error: ...} wrapper.)
errorResponse_Bare(message, status) == jsonResponse(JStr(message), status)

\* status defaults to 400 when the caller gives none
errorResponse(message, status) == jsonResponse(JObj("error" :> JStr(message)), status)

handleOptions == Response(NullBody, 204, corsHeaders)

handleHealth ==
    jsonResponse(JObj(("status" :> JStr("ok")) @@
                      ("service" :> JStr("browserslist-mcp")) @@
                      ("version" :> JStr("1.0.0")) @@
                      ("timestamp" :> JStr("2026-01-01T00:00:00.000Z"))), 200)

\* request.json(): the parsed body, or a SyntaxError.
request_json(request) ==
    CASE request.body.t = "none" -> Throw("Unexpected end of JSON input")
      [] request.body.t = "malformed" -> Throw("Unexpected token in JSON")
      [] OTHER -> Ok(request.body)

handleQueryBrowsers(request, fault) ==
    LET body == request_json(request)
        input == BrowserslistQuerySchema_parse(body.value)
        result == executeBrowserslistQuery(input.value, fault)
    IN  IF ~body.ok THEN errorResponse(MessageOf(body.error, "Failed to parse request"), 400)
        ELSE IF ~input.ok
             THEN errorResponse(MessageOf(input.error, "Failed to parse request"), 400)
        ELSE IF ~result.ok
             THEN errorResponse(MessageOf(result.error, "Failed to parse request"), 400)
        ELSE jsonResponse(result.value, 200)

handleGetDefaults(fault) ==
    LET defaults == getBrowserslistDefaults(fault)
    IN  IF ~defaults.ok
        THEN errorResponse(MessageOf(defaults.error, "Failed to get defaults"), 500)
        ELSE jsonResponse(JObj(("defaults" :> JStr(defaults.value)) @@
                               ("description" :> JStr("Default browserslist configuration"))),
                          200)

\* (handleGetCoverage_NoCheck is the faulty variant without the check of body.browsers.)
handleGetCoverage_NoCheck(request, fault) ==
    LET body == request_json(request)
        coverage == getBrowserslistCoverage(
                        IF Get(body.value, "browsers") # Undefined
                           /\ Get(body.value, "browsers").t = "array"
                        THEN Get(body.value, "browsers").v ELSE <<>>, fault)
    IN  IF ~body.ok
        THEN errorResponse(MessageOf(body.error, "Failed to calculate coverage"), 400)
        ELSE IF ~coverage.ok
             THEN errorResponse(MessageOf(coverage.error, "Failed to calculate coverage"), 400)
        ELSE jsonResponse(coverage.value, 200)

handleGetCoverage(request, fault) ==
    LET body == request_json(request)
        browsers == Get(body.value, "browsers")
        coverage == getBrowserslistCoverage(browsers.v, fault)
    IN  IF ~body.ok
        THEN errorResponse(MessageOf(body.error, "Failed to calculate coverage"), 400)
        ELSE IF body.value.t = "null"
             THEN errorResponse("Cannot read properties of null (reading 'browsers')", 400)
        ELSE IF browsers = Undefined \/ Falsy(browsers) \/ browsers.t # "array"
             THEN errorResponse("browsers must be an array of browser strings", 400)
        ELSE IF ~coverage.ok
             THEN errorResponse(MessageOf(coverage.error, "Failed to calculate coverage"), 400)
        ELSE jsonResponse(coverage.value, 200)

handleDocumentation ==
    Response(TextBody("BROWSERSLIST_DOCUMENTATION"), 200,
             ("Content-Type" :> "text/markdown; charset=utf-8") @@ corsHeaders)

BROWSERSLIST_EXAMPLES ==
    JArr(<<JObj(("query" :> JStr("last 2 versions")) @@
                ("description" :> JStr("Last 2 versions of all browsers"))),
           JObj(("query" :> JStr("> 0.5%, not IE 11")) @@
                ("description" :> JStr("More than 0.5% usage, excluding IE 11")))>>)

handleExamples == jsonResponse(BROWSERSLIST_EXAMPLES, 200)

handleRoot ==
    jsonResponse(JObj(
        ("name" :> JStr("browserslist-mcp")) @@
        ("version" :> JStr("1.0.0")) @@
        ("description" :> JStr("Browserslist query API for Cloudflare Workers")) @@
        ("endpoints" :> JObj(
            ("GET /" :> JStr("API information")) @@
            ("GET /health" :> JStr("Health check")) @@
            ("GET|POST|DELETE /mcp" :> JStr("MCP protocol endpoint (Model Context Protocol)")) @@
            ("POST /api/query" :> JStr("Execute browserslist query (REST API)")) @@
            ("GET /api/defaults" :> JStr("Get default browserslist configuration (REST API)")) @@
            ("POST /api/coverage" :> JStr("Calculate browser coverage (REST API)")) @@
            ("GET /api/documentation" :> JStr("Get browserslist query documentation (REST API)")) @@
            ("GET /api/examples" :> JStr("Get query examples (REST API)")))) @@
        ("documentation" :> JStr("https://github.com/browserslist/browserslist")) @@
        ("mcp" :> JStr("https://modelcontextprotocol.io"))), 200)

(***************************************************************************)
(* The router.  A request is its method, the pathname of its URL, its      *)
(* content-type header and its body text (absent, not JSON, or the JSON    *)
(* value it parses to).  handleRequest yields the handler it selected and, *)
(* for every handler but handleMCPRequest, that handler's response.        *)
(***************************************************************************)
Route(handler, response) == [handler |-> handler, response |-> response]

\* (notFound_PathOnly is the faulty variant that leaves the method out.)
notFound_PathOnly(method, pathname) ==
    errorResponse("Endpoint not found: " \o pathname, 404)

notFound(method, pathname) ==
    errorResponse("Endpoint not found: " \o method \o " " \o pathname, 404)

restRoute(request, fault) ==
    LET pathname == request.pathname
        method == request.method
    IN  IF pathname = "/" \/ pathname = "" THEN Route("handleRoot", handleRoot)
        ELSE IF pathname = "/health" THEN Route("handleHealth", handleHealth)
        ELSE IF pathname = "/api/query" /\ method = "POST"
             THEN Route("handleQueryBrowsers", handleQueryBrowsers(request, fault))
        ELSE IF pathname = "/api/defaults" /\ method = "GET"
             THEN Route("handleGetDefaults", handleGetDefaults(fault))
        ELSE IF pathname = "/api/coverage" /\ method = "POST"
             THEN Route("handleGetCoverage", handleGetCoverage(request, fault))
        ELSE IF pathname = "/api/documentation" /\ method = "GET"
             THEN Route("handleDocumentation", handleDocumentation)
        ELSE IF pathname = "/api/examples" /\ method = "GET"
             THEN Route("handleExamples", handleExamples)
        ELSE Route("notFound", notFound(method, pathname))

\* (handleRequest_NoPreflight is the faulty variant without the OPTIONS branch.)
handleRequest_NoPreflight(request, fault) ==
    IF request.pathname = "/mcp" THEN Route("handleMCPRequest", NoResponse)
    ELSE restRoute(request, fault)

\* (handleRequest_McpFirst is the faulty variant that looks at /mcp before OPTIONS.)
handleRequest_McpFirst(request, fault) ==
    IF request.pathname = "/mcp" THEN Route("handleMCPRequest", NoResponse)
    ELSE IF request.method = "OPTIONS" THEN Route("handleOptions", handleOptions)
    ELSE restRoute(request, fault)

handleRequest(request, fault) ==
    IF request.method = "OPTIONS" THEN Route("handleOptions", handleOptions)
    ELSE IF request.pathname = "/mcp" THEN Route("handleMCPRequest", NoResponse)
    ELSE restRoute(request, fault)

\* What the promise returned by fetch settled with.
Pending == [state |-> "pending", response |-> NoResponse]
Fulfilled(response) == [state |-> "fulfilled", response |-> response]
Rejected == [state |-> "rejected", response |-> NoResponse]

\* fetch: return await handleRequest(request), a throw turned into a 500.
fetch(result) ==
    IF result.ok THEN Fulfilled(result.value)
    ELSE Fulfilled(errorResponse(MessageOf(result.error, "Internal server error"), 500))

(***************************************************************************)
(* The requests of the model.                                              *)
(***************************************************************************)
Slots == 1..NReq
Methods == {"GET", "POST", "DELETE", "OPTIONS"}
Pathnames == {"/", "/health", "/api/query", "/api/defaults", "/api/coverage",
              "/api/documentation", "/api/examples", "/mcp", "/unknown"}
NoBody == [t |-> "none"]
Malformed == [t |-> "malformed"]
QueryBodies ==
    {Malformed, JNull, EmptyObject,
     JObj("query" :> JNum(5)),
     JObj("query" :> JStr("last 1 version")),
     JObj("query" :> JStr("invalid query syntax 123456"))}
CoverageBodies ==
    {Malformed, JNull, EmptyObject,
     JObj("browsers" :> JNull),
     JObj("browsers" :> JStr("chrome 90")),
     JObj("browsers" :> JArr(<<>>)),
     JObj("browsers" :> JArr(<<JStr("chrome 90"), JStr("firefox 88")>>)),
     JObj("browsers" :> JArr(<<JNum(1)>>))}
JsonRpc(id) ==
    JObj(("jsonrpc" :> JStr("2.0")) @@ ("id" :> JNum(id)) @@ ("method" :> JStr("tools/call")))
\* Two ids are enough for two requests to carry the same id or different ones.
JsonRpcBodies == {JsonRpc(id) : id \in {1, 2}}
McpBodies == {Malformed} \cup JsonRpcBodies

Request(method, pathname, contentType, body) ==
    [method |-> method, pathname |-> pathname, contentType |-> contentType, body |-> body]
\* The slot of a request that has not arrived.
NoRequest == Request("", "", "", NoBody)

\* A body goes with POST only; the bodies tried on a path are the ones its handler
\* tells apart.
Requests ==
    {Request(m, p, "", NoBody) : m \in Methods \ {"POST"}, p \in Pathnames}
    \cup {Request("POST", p, "", NoBody) :
            p \in Pathnames \ {"/api/query", "/api/coverage"}}
    \cup {Request("POST", "/api/query", "application/json", b) : b \in QueryBodies}
    \cup {Request("POST", "/api/coverage", "application/json", b) : b \in CoverageBodies}
    \cup {Request("POST", "/mcp", "application/json", b) : b \in McpBodies}

(***************************************************************************)
(* handleMCPRequest, step by step.  The module-level mcpServer is shared   *)
(* by all requests; mcpServer.connect(transport) makes the transport of    *)
(* the calling request the one transport the server is connected to.       *)
(* StreamableHTTPServerTransport and McpServer are library code: what      *)
(* transport.handleRequest does with the response object is chosen by the  *)
(* environment among throwing, answering at once, leaving a stream open    *)
(* and handing a JSON-RPC request to the server the transport is connected *)
(* to, whose reply is sent later through the transport the server holds    *)
(* when the request reaches it.                                            *)
(***************************************************************************)
NoError == [instanceofError |-> FALSE, message |-> ""]
NotThrown == [raised |-> FALSE, error |-> NoError]
Raised(error) == [raised |-> TRUE, error |-> error]

\* What the environment may throw: an Error, or a value that is no Error.
ThrownValues == {[instanceofError |-> TRUE, message |-> "transport failure"], NoError}

\* contentType.includes('application/json')
IncludesJson(contentType) ==
    contentType \in {"application/json", "application/json; charset=utf-8"}

\* The preflight answer inside handleMCPRequest.
mcpPreflight ==
    Response(NullBody, 204,
        ("Access-Control-Allow-Origin" :> "*") @@
        ("Access-Control-Allow-Methods" :> "GET, POST, DELETE, OPTIONS") @@
        ("Access-Control-Allow-Headers" :>
            "Content-Type, Authorization, Mcp-Session-Id, Accept, Mcp-Protocol-Version") @@
        ("Access-Control-Max-Age" :> "86400"))

\* The text of the server's reply to the message of slot r ("{r}").
ReplyText(r) == <<123, 48 + r, 125>>
\* The text of an error answer the transport writes itself ("!").
TransportErrorText == <<33>>

JsonContentType == [t |-> "object", v |-> <<<<"Content-Type", JStr("application/json")>>>>]
\* The headers of an answer that names the one origin it allows.
OwnCorsHeaders ==
    [t |-> "object", v |-> <<<<"Content-Type", JStr("application/json")>>,
                             <<"Access-Control-Allow-Origin", JStr("https://app.example")>>>>]

\* headers.set(name, value) on a Headers object
HeadersSet(headers, name, value) == (toLowerCase(name) :> value) @@ headers

\* (mcpCatch_BadRequest is the faulty variant that answers 400, as the REST
\* handlers' errorResponse does by default.)
mcpCatch_BadRequest(error) ==
    Response(JsonBody(JObj("error" :> JStr(MessageOf(error, "Internal server error")))),
             400,
             ("Content-Type" :> "application/json") @@
             ("Access-Control-Allow-Origin" :> "*"))

\* The catch block of handleMCPRequest.
mcpCatch(error) ==
    Response(JsonBody(JObj("error" :> JStr(MessageOf(error, "Internal server error")))),
             500,
             ("Content-Type" :> "application/json") @@
             ("Access-Control-Allow-Origin" :> "*"))

\* (Two faulty variants: the materialized response returned as it is, and returned
\* with no header but the CORS one.)
mcpReturn_AsIs(response) == response

mcpReturn_CorsOnly(response) ==
    [status |-> response.status,
     headers |-> HeadersSet(<<>>, "Access-Control-Allow-Origin", "*"),
     body |-> response.body]

\* Lines 366-376: the materialized response with the CORS header added.
mcpReturn(response) ==
    [status |-> response.status,
     headers |-> HeadersSet(response.headers, "Access-Control-Allow-Origin", "*"),
     body |-> response.body]

\* fetch(request) up to its first await.  Every handler but handleMCPRequest has
\* settled by then (its awaits touch nothing shared); handleMCPRequest has created
\* its transport and called mcpServer.connect, which either throws or leaves the
\* server connected to this transport.  (Only a POST to /mcp that carries a
\* JSON-RPC request can reach the shared server with a message; the model tries
\* every other request in slot 1 only, and a request outside /mcp, which touches
\* nothing the requests share, with no other request around.)
LibraryHandlers == {"handleQueryBrowsers", "handleGetDefaults", "handleGetCoverage"}

\* The requests tried in slot r.
Arrivals(r) ==
    IF r = 1 THEN Requests
    ELSE {Request("POST", "/mcp", "application/json", body) : body \in JsonRpcBodies}

Fetch(r) ==
    /\ pc[r] = "idle"
    /\ \E request \in Arrivals(r) :
          LET handler == handleRequest(request, "none").handler
              connects == handler = "handleMCPRequest" /\ request.method # "OPTIONS"
          IN
          \E libraryFault \in (IF handler \in LibraryHandlers THEN Faults ELSE {"none"}),
             connectThrows \in (IF connects THEN BOOLEAN ELSE {FALSE}) :
          \E error \in (IF connectThrows THEN ThrownValues ELSE {NoError}) :
          LET route == handleRequest(request, libraryFault)
          IN  /\ r = 1 \/ (route.handler = "handleMCPRequest" /\ request.body \in JsonRpcBodies)
              /\ \A q \in Slots \ {r} :
                    IF route.handler = "handleMCPRequest"
                    THEN trace[q] \in {<<>>, <<"handleMCPRequest">>}
                    ELSE pc[q] = "idle"
              /\ libraryFault = "none" \/ route.handler \in LibraryHandlers
              /\ req' = [req EXCEPT ![r] = request]
              /\ failure' = [failure EXCEPT ![r] = libraryFault]
              /\ trace' = [trace EXCEPT ![r] = <<route.handler>>]
              /\ IF route.handler # "handleMCPRequest"
                 THEN /\ ~connectThrows
                      /\ error = NoError
                      /\ out' = [out EXCEPT ![r] = fetch(Ok(route.response))]
                      /\ pc' = [pc EXCEPT ![r] = "done"]
                      /\ UNCHANGED <<connected, thrown>>
                 ELSE IF request.method = "OPTIONS"
                 THEN /\ ~connectThrows
                      /\ error = NoError
                      /\ out' = [out EXCEPT ![r] = fetch(Ok(mcpPreflight))]
                      /\ pc' = [pc EXCEPT ![r] = "done"]
                      /\ UNCHANGED <<connected, thrown>>
                 ELSE IF connectThrows
                 THEN /\ thrown' = [thrown EXCEPT ![r] = Raised(error)]
                      /\ pc' = [pc EXCEPT ![r] = "caught"]
                      /\ UNCHANGED <<connected, out>>
                 ELSE /\ error = NoError
                      /\ connected' = r
                      /\ pc' = [pc EXCEPT ![r] = "connect"]
                      /\ UNCHANGED <<out, thrown>>
    /\ UNCHANGED <<wres, streams, inflight, lost>>
    /\ UNCHANGED <<mcpServer, adapterVars, toolVars, edgeVars>>

\* Lines 350-357, after the await of connect: a POST with a JSON content type has
\* its body parsed, and a body that is no JSON throws.
ParseBody(r) ==
    /\ pc[r] = "connect"
    /\ LET parsed == request_json(req[r])
       IN  IF req[r].method = "POST" /\ IncludesJson(req[r].contentType) /\ ~parsed.ok
           THEN /\ thrown' = [thrown EXCEPT ![r] = Raised(parsed.error)]
                /\ pc' = [pc EXCEPT ![r] = "caught"]
           ELSE /\ pc' = [pc EXCEPT ![r] = "handle"]
                /\ UNCHANGED thrown
    /\ UNCHANGED <<req, out, wres, trace, connected, streams, inflight, lost>>
    /\ UNCHANGED <<failure, mcpServer, adapterVars, toolVars, edgeVars>>

\* Lines 359-364 with transport.handleRequest throwing before any end().
HandleThrows(r) ==
    /\ pc[r] = "handle"
    /\ \E error \in ThrownValues :
          thrown' = [thrown EXCEPT ![r] = Raised(error)]
    /\ pc' = [pc EXCEPT ![r] = "caught"]
    /\ UNCHANGED <<req, out, wres, trace, connected, streams, inflight, lost>>
    /\ UNCHANGED <<failure, mcpServer, adapterVars, toolVars, edgeVars>>

\* ... with the transport answering by itself: writeHead(status, headers).end(body),
\* or writeHead(202).end() for a message that needs no reply.
HandleAnswers(r) ==
    /\ pc[r] = "handle"
    /\ \E status \in {202, 400} :
          wres' = [wres EXCEPT ![r] =
                      IF status = 202
                      THEN end(writeHead(@, 202, Undefined), Undefined)
                      ELSE end(writeHead(@, status, JsonContentType),
                               Str(TransportErrorText))]
    /\ pc' = [pc EXCEPT ![r] = "await"]
    /\ UNCHANGED <<req, out, trace, connected, streams, inflight, lost, thrown>>
    /\ UNCHANGED <<failure, mcpServer, adapterVars, toolVars, edgeVars>>

\* ... with the transport turning the request down in an answer that names the one
\* origin it allows.
HandleRefuses(r) ==
    /\ pc[r] = "handle"
    /\ wres' = [wres EXCEPT ![r] =
                  end(writeHead(@, 403, OwnCorsHeaders), Str(TransportErrorText))]
    /\ pc' = [pc EXCEPT ![r] = "await"]
    /\ UNCHANGED <<req, out, trace, connected, streams, inflight, lost, thrown>>
    /\ UNCHANGED <<failure, mcpServer, adapterVars, toolVars, edgeVars>>

\* ... with the transport writing an error answer, end() included, and throwing
\* before it returns.
HandleEndsThenThrows(r) ==
    /\ pc[r] = "handle"
    /\ wres' = [wres EXCEPT ![r] =
                  end(writeHead(@, 400, JsonContentType), Str(TransportErrorText))]
    /\ \E error \in ThrownValues :
          thrown' = [thrown EXCEPT ![r] = Raised(error)]
    /\ pc' = [pc EXCEPT ![r] = "caught"]
    /\ UNCHANGED <<req, out, trace, connected, streams, inflight, lost>>
    /\ UNCHANGED <<failure, mcpServer, adapterVars, toolVars, edgeVars>>

\* ... with a GET left open as an event stream: writeHead(200, headers).flushHeaders()
\* and no end().
HandleStreams(r) ==
    /\ pc[r] = "handle"
    /\ req[r].method = "GET"
    /\ wres' = [wres EXCEPT ![r] =
                  flushHeaders(writeHead(@, 200,
                      [t |-> "object", v |-> <<<<"Content-Type", JStr("text/event-stream")>>>>]))]
    /\ pc' = [pc EXCEPT ![r] = "await"]
    /\ UNCHANGED <<req, out, trace, connected, streams, inflight, lost, thrown>>
    /\ UNCHANGED <<failure, mcpServer, adapterVars, toolVars, edgeVars>>

\* ... with a JSON-RPC request: the transport keeps the response object under the
\* request's id and hands the message to the server, which notes the transport it
\* is connected to at that moment as the one to reply through.
HandleDispatches(r) ==
    /\ pc[r] = "handle"
    /\ req[r].method = "POST"
    /\ IncludesJson(req[r].contentType)
    /\ Get(req[r].body, "id") # Undefined
    /\ LET id == Get(req[r].body, "id").v
       IN  /\ streams' = [streams EXCEPT ![r] = @ \cup {id}]
           /\ inflight' = inflight \cup {[origin |-> r, id |-> id, via |-> connected]}
    /\ pc' = [pc EXCEPT ![r] = "await"]
    /\ UNCHANGED <<req, out, wres, trace, connected, lost, thrown>>
    /\ UNCHANGED <<failure, mcpServer, adapterVars, toolVars, edgeVars>>

\* The server finishes a request and sends the reply through the transport it noted.
\* That transport writes it to the response object it keeps under the reply's id,
\* and throws (an error the server swallows) when it keeps none.
ServerReplies ==
    \E m \in inflight :
        /\ inflight' = inflight \ {m}
        /\ IF m.id \in streams[m.via]
           THEN /\ wres' = [wres EXCEPT ![m.via] =
                               end(writeHead(@, 200, JsonContentType),
                                   Str(ReplyText(m.origin)))]
                /\ streams' = [streams EXCEPT ![m.via] = @ \ {m.id}]
                /\ UNCHANGED lost
           ELSE /\ lost' = [lost EXCEPT ![m.origin] = TRUE]
                /\ UNCHANGED <<wres, streams>>
        /\ UNCHANGED <<req, pc, out, trace, connected, thrown>>
        /\ UNCHANGED <<failure, mcpServer, adapterVars, toolVars, edgeVars>>

\* (AwaitResponse_Timeout is the faulty variant that gives up waiting.)
AwaitResponse_Timeout(r) ==
    /\ pc[r] = "await"
    /\ out' = [out EXCEPT ![r] = fetch(Throw("Request timed out"))]
    /\ pc' = [pc EXCEPT ![r] = "done"]
    /\ UNCHANGED <<req, wres, trace, connected, streams, inflight, lost, thrown>>
    /\ UNCHANGED <<failure, mcpServer, adapterVars, toolVars, edgeVars>>

\* Lines 366-376: await res.getResponse() goes on once the promise is resolved.
AwaitResponse(r) ==
    /\ pc[r] = "await"
    /\ wres[r].resolved
    /\ out' = [out EXCEPT ![r] = fetch(Ok(mcpReturn(getResponse(wres[r]))))]
    /\ pc' = [pc EXCEPT ![r] = "done"]
    /\ UNCHANGED <<req, wres, trace, connected, streams, inflight, lost, thrown>>
    /\ UNCHANGED <<failure, mcpServer, adapterVars, toolVars, edgeVars>>

\* (Catch_PrefersSnapshot is the faulty variant that answers with the materialized
\* response when there is one.)
Catch_PrefersSnapshot(r) ==
    /\ pc[r] = "caught"
    /\ out' = [out EXCEPT ![r] =
                 IF wres[r].resolved THEN fetch(Ok(mcpReturn(getResponse(wres[r]))))
                 ELSE fetch(Ok(mcpCatch(thrown[r].error)))]
    /\ pc' = [pc EXCEPT ![r] = "done"]
    /\ UNCHANGED <<req, wres, trace, connected, streams, inflight, lost, thrown>>
    /\ UNCHANGED <<failure, mcpServer, adapterVars, toolVars, edgeVars>>

\* Lines 377-389: the catch block.
Catch(r) ==
    /\ pc[r] = "caught"
    /\ out' = [out EXCEPT ![r] = fetch(Ok(mcpCatch(thrown[r].error)))]
    /\ pc' = [pc EXCEPT ![r] = "done"]
    /\ UNCHANGED <<req, wres, trace, connected, streams, inflight, lost, thrown>>
    /\ UNCHANGED <<failure, mcpServer, adapterVars, toolVars, edgeVars>>

(***************************************************************************)
(* The Koa app (src/src/server/koa.ts): bodyParser, the error-handling     *)
(* middleware, the router's routes and router.allowedMethods(), in the     *)
(* order app.use registers them.  Koa, @koa/router and koa-bodyparser are  *)
(* library code: what they answer by themselves is a text body.            *)
(***************************************************************************)
koaJson(data, status) ==
    Response(JsonBody(data), status, "Content-Type" :> "application/json; charset=utf-8")

\* Koa's own answer: the message of the status (or of an error thrown with a status
\* that no middleware caught) as text.
koaText(message, status, headers) ==
    Response(TextBody(message), status,
             ("Content-Type" :> "text/plain; charset=utf-8") @@ headers)

\* ctx.throw(status, message): an Error that carries a status.
ctx_throw(status, message) ==
    [ok |-> FALSE, error |-> [instanceofError |-> TRUE, message |-> message]]

\* koa-bodyparser: ctx.request.body is {} when there is no JSON body; a body that is
\* no JSON, or (strict mode) neither an object nor an array, is thrown as a 400.
bodyParser(request) ==
    IF ~IncludesJson(request.contentType) \/ request.body.t = "none" THEN Ok(EmptyObject)
    ELSE IF request.body.t = "malformed" THEN ctx_throw(400, "Unexpected token in JSON")
    ELSE IF request.body.t \notin {"object", "array"}
         THEN ctx_throw(400, "invalid JSON, only supports object and array")
    ELSE Ok(request.body)

\* Lines 19-29: whatever a later middleware throws becomes a 400.
koaErrorMiddleware(result) ==
    IF result.ok THEN result.value
    ELSE koaJson(JObj("error" :> JStr(IF result.error.message # "" THEN result.error.message
                                      ELSE "Internal server error")), 400)

\* The paths the router has a route for, with the methods of the route.
koaRouteMethods(pathname) ==
    CASE pathname \in {"/health", "/api/defaults", "/api/documentation", "/api/examples"}
            -> {"HEAD", "GET"}
      [] pathname \in {"/api/query", "/api/coverage"} -> {"POST"}
      [] OTHER -> {}

\* Allow: the methods of the path's routes
koaAllow(pathname) == IF "GET" \in koaRouteMethods(pathname) THEN "HEAD, GET" ELSE "POST"

\* Lines 32-68: the route handlers.  A handler that returns has set ctx.body (the
\* status is 200 then); one that throws leaves the answer to the error middleware.
koaHealth ==
    Ok(koaJson(JObj(("status" :> JStr("ok")) @@ ("service" :> JStr("browserslist-mcp"))), 200))

koaQuery(body, fault) ==
    LET input == BrowserslistQuerySchema_parse(body)
        result == executeBrowserslistQuery(input.value, fault)
    IN  IF ~input.ok THEN input
        ELSE IF ~result.ok THEN result
        ELSE Ok(koaJson(result.value, 200))

koaDefaults(fault) ==
    LET defaults == getBrowserslistDefaults(fault)
    IN  IF ~defaults.ok THEN defaults
        ELSE Ok(koaJson(JObj("defaults" :> JStr(defaults.value)), 200))

koaCoverage(body, fault) ==
    LET browsers == Get(body, "browsers")
        coverage == getBrowserslistCoverage(browsers.v, fault)
    IN  IF browsers = Undefined \/ browsers.t # "array"
        THEN ctx_throw(400, "browsers must be an array")
        ELSE IF ~coverage.ok THEN coverage
        ELSE Ok(koaJson(coverage.value, 200))

koaDocumentation ==
    Ok(Response(TextBody("BROWSERSLIST_DOCUMENTATION"), 200,
                "Content-Type" :> "text/markdown; charset=utf-8"))

koaExamples == Ok(koaJson(BROWSERSLIST_EXAMPLES, 200))

\* Lines 70-71: router.routes() runs the route of the method and path; when none
\* did, router.allowedMethods() answers a path that has routes (200 with Allow to
\* OPTIONS, 405 to another method), and Koa answers 404 to the rest.
koaRouter(request, body, fault) ==
    LET pathname == request.pathname
        method == request.method
    IN  IF method \in koaRouteMethods(pathname)
        THEN CASE pathname = "/health" -> koaHealth
               [] pathname = "/api/query" -> koaQuery(body, fault)
               [] pathname = "/api/defaults" -> koaDefaults(fault)
               [] pathname = "/api/coverage" -> koaCoverage(body, fault)
               [] pathname = "/api/documentation" -> koaDocumentation
               [] pathname = "/api/examples" -> koaExamples
        ELSE IF koaRouteMethods(pathname) = {} THEN Ok(koaText("Not Found", 404, <<>>))
        ELSE IF method = "OPTIONS"
             THEN Ok(koaText("", 200, "Allow" :> koaAllow(pathname)))
        ELSE Ok(koaText("Method Not Allowed", 405, "Allow" :> koaAllow(pathname)))

\* The app: one request through the middleware stack.
createKoaApp(request, fault) ==
    LET body == bodyParser(request)
    IN  IF ~body.ok THEN koaText(body.error.message, 400, <<>>)
        ELSE koaErrorMiddleware(koaRouter(request, body.value, fault))

(***************************************************************************)
(* SpecFrontEnds: one request of the REST surface sent to both front ends, *)
(* each of which answers it on its own.                                    *)
(***************************************************************************)
RestRequests == {request \in Requests : request.pathname # "/mcp"}

Sent(request, fault, koa, worker) ==
    [request |-> request, fault |-> fault, koa |-> koa, worker |-> worker]

Send ==
    /\ front.request = NoRequest \/ (front.koa # Pending /\ front.worker # Pending)
    /\ \E request \in RestRequests :
       \E fault \in (IF handleRequest(request, "none").handler \in LibraryHandlers
                     THEN Faults ELSE {"none"}) :
          front' = Sent(request, fault, Pending, Pending)
    /\ UNCHANGED <<incoming, workerVars, adapterVars, toolVars>>

KoaServes ==
    /\ front.request \in RestRequests
    /\ front.koa = Pending
    /\ front' = [front EXCEPT !.koa = Fulfilled(createKoaApp(front.request, front.fault))]
    /\ UNCHANGED <<incoming, workerVars, adapterVars, toolVars>>

WorkerServes ==
    /\ front.request \in RestRequests
    /\ front.worker = Pending
    /\ front' = [front EXCEPT !.worker =
                    fetch(Ok(handleRequest(front.request, front.fault).response))]
    /\ UNCHANGED <<incoming, workerVars, adapterVars, toolVars>>

NextFrontEnds ==
    \/ Send
    \/ KoaServes
    \/ WorkerServes

(***************************************************************************)
(* The inbound proxy.  A native request is its method, its URL and the     *)
(* header lines the client sent, in the letter case it sent them in; its   *)
(* Headers object holds them under lower-case names, lines of one name     *)
(* joined with ", ".                                                       *)
(***************************************************************************)
\* headers.append(name, value)
HeadersAppend(headers, name, value) ==
    IF toLowerCase(name) \in DOMAIN headers
    THEN [headers EXCEPT ![toLowerCase(name)] = @ \o ", " \o value]
    ELSE (toLowerCase(name) :> value) @@ headers

\* request.headers of a request sent with the header lines `sent`
RECURSIVE RequestHeaders(_, _)
RequestHeaders(headers, sent) ==
    IF sent = <<>> THEN headers
    ELSE RequestHeaders(HeadersAppend(headers, Head(sent)[1], Head(sent)[2]), Tail(sent))

NativeRequest(method, url, sent) ==
    [method |-> method, url |-> url, sent |-> sent,
     headers |-> RequestHeaders(<<>>, sent)]

\* new URL(url).pathname on the URLs of the model
PathnameOf(url) ==
    CASE url = "https://worker.example/mcp" -> "/mcp"
      [] url = "https://worker.example/mcp?session=1" -> "/mcp"
      [] OTHER -> url

\* (WorkerIncomingMessage_PathOnly is the faulty variant whose url is the path, as
\* the url of a Node.js IncomingMessage is.)
WorkerIncomingMessage_PathOnly(request) ==
    [method |-> request.method,
     url |-> PathnameOf(request.url),
     headers |-> [key \in {toLowerCase(k) : k \in DOMAIN request.headers} |->
                     request.headers[CHOOSE k \in DOMAIN request.headers :
                                        toLowerCase(k) = key]]]

\* The constructor: request.headers.forEach((value, key) => headers[key.toLowerCase()]
\* = value); the keys forEach yields are distinct.
WorkerIncomingMessage(request) ==
    [method |-> request.method,
     url |-> request.url,
     headers |-> [key \in {toLowerCase(k) : k \in DOMAIN request.headers} |->
                     request.headers[CHOOSE k \in DOMAIN request.headers :
                                        toLowerCase(k) = key]]]

(***************************************************************************)
(* SpecProxy: a native request arrives at /mcp and its proxy is built.     *)
(***************************************************************************)
NoMessage == [method |-> "", url |-> "", headers |-> <<>>]
NoIncoming == [request |-> NativeRequest("", "", <<>>), message |-> NoMessage]

SentNames == {"Content-Type", "content-type", "CONTENT-TYPE", "Mcp-Session-Id", "ACCEPT"}
SentValues == {"application/json", "text/event-stream"}
SentLines == {<<name, value>> : name \in SentNames, value \in SentValues}
SentHeaders == {<<>>} \cup {<<line>> : line \in SentLines}
               \cup {<<l1, l2>> : l1 \in SentLines, l2 \in SentLines}
NativeRequests ==
    {NativeRequest(method, url, sent) :
        method \in {"GET", "POST", "DELETE"},
        url \in {"https://worker.example/mcp", "https://worker.example/mcp?session=1"},
        sent \in SentHeaders}

Arrive ==
    /\ \E request \in NativeRequests :
          incoming' = [request |-> request, message |-> NoMessage]
    /\ UNCHANGED <<front, workerVars, adapterVars, toolVars>>

BuildProxy ==
    /\ incoming.request \in NativeRequests
    /\ incoming' = [incoming EXCEPT !.message = WorkerIncomingMessage(incoming.request)]
    /\ UNCHANGED <<front, workerVars, adapterVars, toolVars>>

NextProxy ==
    \/ Arrive
    \/ BuildProxy

(***************************************************************************)
(* The specifications.                                                     *)
(***************************************************************************)
Init ==
    /\ res = NewWorkerServerResponse
    /\ calls = <<>>
    /\ req = [r \in Slots |-> NoRequest]
    /\ pc = [r \in Slots |-> "idle"]
    /\ out = [r \in Slots |-> Pending]
    /\ wres = [r \in Slots |-> NewWorkerServerResponse]
    /\ trace = [r \in Slots |-> <<>>]
    /\ connected = 0
    /\ streams = [r \in Slots |-> {}]
    /\ inflight = {}
    /\ lost = [r \in Slots |-> FALSE]
    /\ thrown = [r \in Slots |-> NotThrown]
    /\ failure = [r \in Slots |-> "none"]
    /\ mcpServer = createMCPServer
    /\ fcall = NoCall
    /\ tcall = NoCall
    /\ front = Sent(NoRequest, "none", Pending, Pending)
    /\ incoming = NoIncoming

Next ==
    \/ \E r \in Slots : Fetch(r)
    \/ \E r \in Slots : ParseBody(r)
    \/ \E r \in Slots : HandleThrows(r)
    \/ \E r \in Slots : HandleAnswers(r)
    \/ \E r \in Slots : HandleStreams(r)
    \/ \E r \in Slots : HandleDispatches(r)
    \/ ServerReplies
    \/ \E r \in Slots : AwaitResponse(r)
    \/ \E r \in Slots : Catch(r)

\* worker.fetch serving up to NReq requests concurrently
Spec == Init /\ [][Next]_vars

\* ... with a transport that, besides, may turn a request down with CORS headers of
\* its own, or throw after it has ended the response
NextMcp ==
    \/ Next
    \/ \E r \in Slots : HandleRefuses(r)
    \/ \E r \in Slots : HandleEndsThenThrows(r)

SpecMcp == Init /\ [][NextMcp]_vars

\* ... where a rejected await always reaches its catch block
SpecLive == Spec /\ \A r \in Slots : WF_vars(Catch(r))

\* ... where, besides, every continuation the event loop holds is run: the awaits
\* of connect, request.json() and transport.handleRequest return or throw, a
\* resolved completion promise wakes its request, and the server answers the
\* messages handed to it.  (Nothing makes a request arrive.)
SpecFair ==
    /\ SpecLive
    /\ \A r \in Slots :
          /\ WF_vars(ParseBody(r))
          /\ WF_vars(HandleThrows(r) \/ HandleAnswers(r) \/ HandleStreams(r)
                        \/ HandleDispatches(r))
          /\ WF_vars(AwaitResponse(r))
    /\ WF_vars(ServerReplies)

\* one WorkerServerResponse and the calls made on it
SpecAdapter == Init /\ [][NextAdapter]_vars

\* the facade, the schema and the tool handlers, one call after another
SpecTools == Init /\ [][NextTools]_vars

\* the Koa app and the worker answering the same requests
SpecFrontEnds == Init /\ [][NextFrontEnds]_vars

\* the inbound proxy built from the requests that arrive
SpecProxy == Init /\ [][NextProxy]_vars

\* one WorkerServerResponse, its listeners and the calls made on it
SpecEvents == Init /\ [][NextEvents]_vars

(***************************************************************************)
(* Properties.                                                             *)
(***************************************************************************)
IsErrorObject(body) ==
    /\ body.t = "json"
    /\ body.v.t = "object"
    /\ DOMAIN body.v.v = {"error"}
    /\ body.v.v["error"].t = "string"

Settled(r) == out[r].state = "fulfilled"

IsReplyTo(response, o) ==
    /\ response.body.t = "bytes"
    /\ response.body.v = TextEncode(ReplyText(o))

\* C1: however concurrent non-OPTIONS /mcp requests interleave, no request is
\* answered with the reply to another request's message, and no reply is dropped
\* because another request connected its transport to the shared server.
C1_RequestsIsolated ==
    \A r \in Slots :
        /\ ~lost[r]
        /\ \A o \in Slots \ {r} : ~(Settled(r) /\ IsReplyTo(out[r].response, o))

\* C2: once connecting, parsing the body or transport.handleRequest has thrown
\* (before any end() on the response object), the request is never found waiting
\* for the completion promise and is eventually answered with status 500 and a
\* JSON body {error: <string>}.
C2_ThrowYields500 ==
    /\ [](\A r \in Slots : thrown[r].raised => pc[r] # "await")
    /\ \A r \in Slots :
          thrown[r].raised ~> (/\ Settled(r)
                               /\ out[r].response.status = 500
                               /\ IsErrorObject(out[r].response.body))

C2_Witness ==
    \E r \in Slots :
        /\ thrown[r].raised
        /\ ~wres[r].resolved
        /\ pc[r] = "done"
        /\ out[r].response.status = 500

\* The bytes each chunk of the model stands for: "a", "e-acute" (two bytes in
\* UTF-8), "c", the empty string, and two Uint8Arrays.
ExpectedBytes(chunk) ==
    CASE chunk = Str(<<97>>) -> <<97>>
      [] chunk = Str(<<233>>) -> <<195, 169>>
      [] chunk = Str(<<99>>) -> <<99>>
      [] chunk = Bytes(<<0>>) -> <<0>>
      [] chunk = Bytes(<<255>>) -> <<255>>
      [] OTHER -> <<>>

\* The calls up to and including the first end().
RECURSIVE UntilFirstEnd(_)
UntilFirstEnd(log) ==
    IF log = <<>> THEN <<>>
    ELSE IF Head(log).op = "end" THEN <<Head(log)>>
    ELSE <<Head(log)>> \o UntilFirstEnd(Tail(log))

RECURSIVE WrittenBytes(_)
WrittenBytes(log) ==
    IF log = <<>> THEN <<>>
    ELSE (IF Head(log).op \in {"write", "end"} THEN ExpectedBytes(Head(log).chunk)
          ELSE <<>>) \o WrittenBytes(Tail(log))

\* C3: the body of the materialized response is the concatenation, in call order,
\* of the bytes of every chunk written up to and including the first end().
C3_BodyIsConcatenation ==
    res.resolved =>
        /\ res.response.body.t = "bytes"
        /\ res.response.body.v = WrittenBytes(UntilFirstEnd(calls))

C3_Witness ==
    /\ res.resolved
    /\ Len(calls) >= 3
    /\ calls[1].op = "write"
    /\ calls[2].op = "write"
    /\ calls[1].chunk # calls[2].chunk
    /\ calls[3].op = "end"
    /\ Truthy(calls[3].chunk)

\* The response object after the calls of a log.
RECURSIVE Replay(_, _)
Replay(w, log) ==
    IF log = <<>> THEN w
    ELSE LET c == Head(log)
             w1 == CASE c.op = "setHeader" -> setHeader(w, c.name, c.value)
                     [] c.op = "writeHead" -> writeHead(w, c.statusCode, c.headers)
                     [] c.op = "flushHeaders" -> flushHeaders(w)
                     [] c.op = "write" -> write(w, c.chunk)
                     [] c.op = "end" -> end(w, c.chunk)
         IN  Replay(w1, Tail(log))

\* C4: the completion promise holds the snapshot the first end() built; no call
\* made after it changes what getResponse() gives.
C4_FirstEndWins ==
    res.resolved =>
        getResponse(res) =
            getResponse(Replay(NewWorkerServerResponse, UntilFirstEnd(calls)))

C4_Witness ==
    /\ Len(calls) >= 3
    /\ calls[1].op = "end"
    /\ calls[2].op \in {"write", "setHeader", "writeHead"}
    /\ calls[3].op = "end"
    /\ res.resolved

\* The header sets of a log, in the order they were made: <<name, value>>.
RECURSIVE HeaderSets(_)
HeaderSets(log) ==
    IF log = <<>> THEN <<>>
    ELSE LET c == Head(log)
         IN  (CASE c.op = "setHeader" -> <<<<c.name, c.value>>>>
                [] c.op = "writeHead" /\ c.headers # Undefined -> c.headers.v
                [] OTHER -> <<>>) \o HeaderSets(Tail(log))

\* The text a header value is sent as.
ExpectedValue(value) ==
    IF value.t = "number"
    THEN (CASE value.v = 7 -> "7" [] value.v = 8 -> "8" [] OTHER -> "?")
    ELSE value.v

\* C5: every header set before the first end(), by setHeader or writeHead and in
\* any order with the writes, is in the snapshot under its lower-case name, with
\* the value of the last call that set a name equal to it up to letter case.
C5_HeadersPresentLastWins ==
    res.resolved =>
        LET sets == HeaderSets(UntilFirstEnd(calls))
        IN  \A i \in 1..Len(sets) :
                LET ln == toLowerCase(sets[i][1])
                    last == CHOOSE j \in 1..Len(sets) :
                                /\ toLowerCase(sets[j][1]) = ln
                                /\ \A k \in (j + 1)..Len(sets) : toLowerCase(sets[k][1]) # ln
                IN  /\ ln \in DOMAIN res.response.headers
                    /\ res.response.headers[ln] = ExpectedValue(sets[last][2])

C5_Witness ==
    /\ res.resolved
    /\ Len(calls) = 4
    /\ calls[1].op = "setHeader"
    /\ calls[2].op = "write"
    /\ calls[3].op = "writeHead"
    /\ calls[3].headers # Undefined
    /\ toLowerCase(calls[3].headers.v[1][1]) = toLowerCase(calls[1].name)
    /\ calls[3].headers.v[1][1] # calls[1].name
    /\ calls[4].op = "end"

InvalidQueryBody(b) ==
    \/ b.t \in {"none", "malformed"}
    \/ b.t # "object"
    \/ "query" \notin DOMAIN b.v
    \/ b.v["query"].t # "string"
    \/ ~browserslist(b.v["query"].v, Undefined, "none").ok

InvalidCoverageBody(b) ==
    \/ b.t \in {"none", "malformed"}
    \/ b.t # "object"
    \/ "browsers" \notin DOMAIN b.v
    \/ b.v["browsers"].t # "array"
    \/ ~browserslist_coverage(b.v["browsers"].v, "none").ok

\* C7: POST /api/query and POST /api/coverage answer a body that is no JSON, that
\* fails validation or that the library rejects with status 400 and a body that
\* is {error: <non-empty string>} and nothing else.
C7_InvalidInputIs400 ==
    \A r \in Slots :
        (/\ Settled(r)
         /\ req[r].method = "POST"
         /\ \/ req[r].pathname = "/api/query" /\ InvalidQueryBody(req[r].body)
            \/ req[r].pathname = "/api/coverage" /\ InvalidCoverageBody(req[r].body))
        => /\ out[r].response.status = 400
           /\ IsErrorObject(out[r].response.body)
           /\ out[r].response.body.v.v["error"].v # ""

C7_Witness ==
    \E r \in Slots :
        /\ req[r] = Request("POST", "/api/coverage", "application/json",
                            JObj("browsers" :> JStr("chrome 90")))
        /\ trace[r] = <<"handleGetCoverage">>
        /\ Settled(r)
        /\ out[r].response.status = 400

\* The (method, pathname) pairs the worker's router has a branch for.
RouterMatches(method, pathname) ==
    \/ pathname \in {"/", "", "/health", "/mcp"}
    \/ <<method, pathname>> \in
          {<<"POST", "/api/query">>, <<"GET", "/api/defaults">>,
           <<"POST", "/api/coverage">>, <<"GET", "/api/documentation">>,
           <<"GET", "/api/examples">>}

C9_OptionsFirst ==
    \A r \in Slots :
        (pc[r] # "idle" /\ req[r].method = "OPTIONS")
        => /\ Settled(r)
           /\ out[r].response.status = 204
           /\ out[r].response.body = NullBody
           /\ "access-control-allow-origin" \in DOMAIN out[r].response.headers
           /\ out[r].response.headers["access-control-allow-origin"] = "*"
           /\ trace[r] = <<"handleOptions">>
           /\ connected # r
           /\ wres[r] = NewWorkerServerResponse

C9_Witness ==
    \E r \in Slots :
        /\ req[r].method = "OPTIONS"
        /\ req[r].pathname = "/mcp"
        /\ Settled(r)
        /\ out[r].response.status = 204

\* The documented route table.
RouteTable ==
    {<<"GET", "/">>, <<"GET", "/health">>, <<"POST", "/api/query">>,
     <<"GET", "/api/defaults">>, <<"POST", "/api/coverage">>,
     <<"GET", "/api/documentation">>, <<"GET", "/api/examples">>}

RestHandlers ==
    {"handleRoot", "handleHealth", "handleQueryBrowsers", "handleGetDefaults",
     "handleGetCoverage", "handleDocumentation", "handleExamples"}

\* C10: a REST handler is selected only for a (method, pathname) of the route
\* table; every other request that is not OPTIONS and not on /mcp gets the 404
\* payload.
C10_RouteTableOnly ==
    \A r \in Slots :
        (/\ pc[r] # "idle"
         /\ req[r].method # "OPTIONS"
         /\ req[r].pathname # "/mcp"
         /\ <<req[r].method, req[r].pathname>> \notin RouteTable)
        => /\ trace[r][1] \notin RestHandlers
           /\ Settled(r)
           /\ out[r].response.status = 404

\* A request that gets as far as the library call of its handler.
ReachesLibrary(request) ==
    \/ request.method = "GET" /\ request.pathname = "/api/defaults"
    \/ /\ request.method = "POST"
       /\ request.pathname = "/api/query"
       /\ request_json(request).ok
       /\ BrowserslistQuerySchema_parse(request.body).ok
    \/ /\ request.method = "POST"
       /\ request.pathname = "/api/coverage"
       /\ request_json(request).ok
       /\ Get(request.body, "browsers") # Undefined
       /\ Get(request.body, "browsers").t = "array"

\* C11: a request with valid input whose library call fails for an internal reason
\* (neither a validation failure nor a failure to evaluate the query) is answered
\* with status 500 and a body {error: <message>}.
C11_InternalFailureIs500 ==
    \A r \in Slots :
        (Settled(r) /\ failure[r] = "internal" /\ ReachesLibrary(req[r]))
        => /\ out[r].response.status = 500
           /\ IsErrorObject(out[r].response.body)

\* C12: the body of the 500 answer of /mcp does not depend on what was thrown: two
\* requests that failed inside handleMCPRequest's try block have the same body.
C12_ErrorBodyGeneric ==
    \A r, q \in Slots :
        (/\ thrown[r].raised /\ Settled(r)
         /\ thrown[q].raised /\ Settled(q))
        => out[r].response.body = out[q].response.body

\* A request that waits for the completion promise of a response object on which
\* end() has not been called.
Suspended(r) == pc[r] = "await" /\ ~wres[r].resolved

\* C13: a /mcp request whose transport.handleRequest returned stays suspended on
\* getResponse(), with no response, for as long as end() has not been called; and
\* a request that stays without response forever is one of those.
C13_PendingOnlyWithoutEnd ==
    /\ [][\A r \in Slots :
            (pc[r] = "await" /\ ~wres'[r].resolved)
            => (pc'[r] = "await" /\ out'[r] = Pending)]_vars
    /\ <>[](\A r \in Slots : pc[r] \in {"idle", "done"} \/ Suspended(r))

C13_Witness ==
    \E r \in Slots :
        /\ Suspended(r)
        /\ req[r].method = "GET"
        /\ wres[r].headersSent
        /\ inflight = {}

\* C14: the shared server holds exactly the three tools and the two resources, each
\* registered once by createMCPServer, whatever requests were served or failed.
C14_RegistryBuiltOnce ==
    /\ mcpServer.tools = {"query_browsers", "get_defaults", "get_coverage"}
    /\ mcpServer.resources = {"browserslist://documentation", "browserslist://examples"}
    /\ mcpServer.registrations =
          <<"query_browsers", "get_defaults", "get_coverage",
            "browserslist://documentation", "browserslist://examples">>

C14_Witness ==
    \E r, q \in Slots :
        /\ thrown[r].raised /\ Settled(r)
        /\ ~thrown[q].raised /\ Settled(q) /\ trace[q] = <<"handleMCPRequest">>
        /\ Cardinality(mcpServer.tools) = 3

\* C15: a tool handler never throws; when the facade threw, its result has
\* isError: true and the text "Error: " followed by the message.
C15_ToolErrorsAreResults ==
    tcall.op # "none" =>
        /\ tcall.outcome.ok
        /\ ~tcall.facade.ok =>
              /\ tcall.outcome.value.isError
              /\ tcall.outcome.value.content =
                    <<[type |-> "text",
                       text |-> <<Raw("Error: " \o tcall.facade.error.message)>>]>>

C15_Witness ==
    /\ tcall.op = "get_coverage"
    /\ ~tcall.facade.ok
    /\ tcall.outcome.ok
    /\ tcall.outcome.value.isError

\* The text of a successful result parses to its structuredContent, which is
\* what the facade returned.
TextEchoesStructured(call) ==
    LET result == call.outcome.value
        parsed == JSON_parse(result.content[1].text)
    IN  /\ parsed.ok
        /\ parsed.value = result.structuredContent
        /\ result.structuredContent = call.facade.value

\* C16 as stated: for each of the three tools, the text of a successful result is
\* the JSON serialization of the facade's result and parses to structuredContent.
C16_TextIsJsonOfResult ==
    (tcall.op # "none" /\ tcall.facade.ok) => TextEchoesStructured(tcall)

\* C16, amended: that holds for query_browsers and get_coverage; the text of
\* get_defaults is the sentence "Default browserslist query: <defaults>", which is
\* no JSON, and its structuredContent is {defaults: <defaults>}.
C16_TextIsJsonExceptDefaults ==
    (tcall.op # "none" /\ tcall.facade.ok) =>
        IF tcall.op = "get_defaults"
        THEN /\ tcall.outcome.value.content[1].text =
                   <<Raw("Default browserslist query: " \o tcall.facade.value)>>
             /\ ~JSON_parse(tcall.outcome.value.content[1].text).ok
             /\ tcall.outcome.value.structuredContent =
                   JObj("defaults" :> JStr(tcall.facade.value))
        ELSE TextEchoesStructured(tcall)

C16_Witness ==
    /\ tcall.op = "query_browsers"
    /\ tcall.facade.ok
    /\ Len(tcall.outcome.value.structuredContent.v["browsers"].v) = 3
    /\ Len(tcall.outcome.value.content[1].text) > 10

\* C17: when executeBrowserslistQuery returns, count is the length of browsers,
\* query is the input's query and browsers is the library's list as it is; when
\* the library throws, an Error is thrown.
C17_ResultMirrorsLibrary ==
    fcall.op = "executeBrowserslistQuery" =>
        LET query == fcall.input.v["query"].v
            library == browserslist(query, Undefined, fcall.fault)
        IN  IF fcall.outcome.ok
            THEN /\ library.ok
                 /\ fcall.outcome.value.v["count"].v =
                       Len(fcall.outcome.value.v["browsers"].v)
                 /\ fcall.outcome.value.v["query"] = JStr(query)
                 /\ fcall.outcome.value.v["browsers"] = StringArray(library.value)
            ELSE /\ ~library.ok
                 /\ fcall.outcome.error.instanceofError

C17_Witness ==
    /\ fcall.op = "executeBrowserslistQuery"
    /\ fcall.input.v["query"].v = "defaults"
    /\ fcall.outcome.ok
    /\ fcall.outcome.value.v["count"].v = 3

\* C18: getBrowserslistCoverage([]) is {coverage: 0}, and POST /api/coverage with
\* {"browsers": []} is answered 200 with that payload.
C18_EmptyListAccepted ==
    \A r \in Slots :
        (/\ Settled(r)
         /\ failure[r] = "none"
         /\ req[r] = Request("POST", "/api/coverage", "application/json",
                             JObj("browsers" :> JArr(<<>>))))
        => /\ getBrowserslistCoverage(<<>>, "none") = Ok(JObj("coverage" :> JNum(0)))
           /\ out[r].response.status = 200
           /\ out[r].response.body = JsonBody(JObj("coverage" :> JNum(0)))

C18_Witness ==
    \E r \in Slots :
        /\ Settled(r)
        /\ failure[r] = "none"
        /\ req[r].pathname = "/api/coverage"
        /\ req[r].body = JObj("browsers" :> JArr(<<>>))
        /\ out[r].response.status = 200

\* What the schema declares: query a string, options absent or an object whose env
\* and path are absent or strings.
Declared(input) ==
    /\ input.t = "object"
    /\ "query" \in DOMAIN input.v
    /\ input.v["query"].t = "string"
    /\ "options" \in DOMAIN input.v =>
          /\ input.v["options"].t = "object"
          /\ \A key \in DOMAIN input.v["options"].v \cap {"env", "path"} :
                input.v["options"].v[key].t = "string"

NoExtraFields(input) ==
    /\ DOMAIN input.v \subseteq {"query", "options"}
    /\ "options" \in DOMAIN input.v => DOMAIN input.v["options"].v \subseteq {"env", "path"}

\* C19: BrowserslistQuerySchema.parse returns exactly on the inputs the schema
\* declares and throws on every other; what it returns for an input without extra
\* fields is equal to the input.
C19_SchemaAcceptsDeclared ==
    fcall.op = "BrowserslistQuerySchema.parse" =>
        /\ fcall.outcome.ok <=> Declared(fcall.input)
        /\ (fcall.outcome.ok /\ NoExtraFields(fcall.input)) =>
              fcall.outcome.value = fcall.input
        /\ ~fcall.outcome.ok => fcall.outcome.error.instanceofError

C19_Witness ==
    /\ fcall.op = "BrowserslistQuerySchema.parse"
    /\ fcall.outcome.ok
    /\ "options" \in DOMAIN fcall.input.v
    /\ DOMAIN fcall.input.v["options"].v = {"env", "path"}

\* C20: an empty query is turned down by validation: the schema throws on it, and
\* a query_browsers call with it gets isError without the facade being called.
C20_EmptyQueryRejected ==
    /\ (fcall.op = "BrowserslistQuerySchema.parse" /\ Get(fcall.input, "query") = JStr(""))
          => ~fcall.outcome.ok
    /\ (tcall.op = "query_browsers" /\ Get(tcall.input, "query") = JStr(""))
          => (tcall.outcome.value.isError /\ tcall.facade = NotCalled)

\* The input with the null-valued env and path of its options left out.
WithoutNulls(input) ==
    IF input.t = "object" /\ "options" \in DOMAIN input.v /\ input.v["options"].t = "object"
    THEN LET options == input.v["options"].v
             kept == {key \in DOMAIN options :
                         ~(key \in {"env", "path"} /\ options[key].t = "null")}
         IN  JObj([input.v EXCEPT !["options"] = JObj([key \in kept |-> options[key]])])
    ELSE input

\* C21: a null options.env or options.path passes validation and counts as absent:
\* an input that is as declared once its null env and path are left out is accepted,
\* and parses to what the input without them parses to.
C21_NullIsAbsent ==
    (fcall.op = "BrowserslistQuerySchema.parse" /\ Declared(WithoutNulls(fcall.input))) =>
        /\ fcall.outcome.ok
        /\ fcall.outcome = BrowserslistQuerySchema_parse(WithoutNulls(fcall.input))

\* C22: the Koa app and the worker answer every request of the REST surface they
\* share (the paths both know, and the combinations of method and path neither has
\* a route for) with the same status and, when it is an error, with an
\* {error: <string>} body.
C22_FrontEndsAgree ==
    (/\ front.request.pathname \in Pathnames \ {"/", "/mcp"}
     /\ front.koa.state = "fulfilled"
     /\ front.worker.state = "fulfilled") =>
        /\ front.koa.response.status = front.worker.response.status
        /\ front.worker.response.status >= 400 =>
              /\ IsErrorObject(front.koa.response.body)
              /\ IsErrorObject(front.worker.response.body)

AllowsAnyOrigin(response) ==
    /\ "access-control-allow-origin" \in DOMAIN response.headers
    /\ response.headers["access-control-allow-origin"] = "*"

\* C23: every response fetch settles with carries Access-Control-Allow-Origin: *.
C23_EveryResponseHasCors ==
    \A r \in Slots : Settled(r) => AllowsAnyOrigin(out[r].response)

\* A materialized /mcp response that does not have the header by itself, returned.
C23_Witness ==
    \E r \in Slots :
        /\ Settled(r)
        /\ trace[r] = <<"handleMCPRequest">>
        /\ ~thrown[r].raised
        /\ wres[r].resolved
        /\ ~AllowsAnyOrigin(getResponse(wres[r]))
        /\ AllowsAnyOrigin(out[r].response)

\* C24: a request whose handler called end() and then threw is answered with the
\* status-500 {error: <string>} response of the catch block and not with the
\* materialized snapshot; and the response a request was answered with is never
\* replaced by another.
C24_EndThenThrowIs500 ==
    /\ [](\A r \in Slots :
            (Settled(r) /\ thrown[r].raised /\ wres[r].resolved) =>
                /\ out[r].response = mcpCatch(thrown[r].error)
                /\ out[r].response.status = 500
                /\ IsErrorObject(out[r].response.body)
                /\ out[r].response # mcpReturn(getResponse(wres[r])))
    /\ [][\A r \in Slots : Settled(r) => out'[r] = out[r]]_vars

C24_Witness ==
    \E r \in Slots :
        /\ Settled(r)
        /\ thrown[r].raised
        /\ wres[r].resolved
        /\ getResponse(wres[r]).status = 400
        /\ out[r].response.status = 500

\* C26: a non-OPTIONS /mcp request whose handler finished without throwing is
\* answered with the status and the body of the materialized snapshot and with the
\* snapshot's headers, Access-Control-Allow-Origin: * added or put in the place of
\* the snapshot's own.
C26_OutboundIsSnapshot ==
    \A r \in Slots :
        (/\ Settled(r)
         /\ trace[r] = <<"handleMCPRequest">>
         /\ req[r].method # "OPTIONS"
         /\ ~thrown[r].raised) =>
            LET snapshot == getResponse(wres[r])
                response == out[r].response
            IN  /\ wres[r].resolved
                /\ response.status = snapshot.status
                /\ response.body = snapshot.body
                /\ DOMAIN response.headers =
                      DOMAIN snapshot.headers \cup {"access-control-allow-origin"}
                /\ \A name \in DOMAIN snapshot.headers \ {"access-control-allow-origin"} :
                      response.headers[name] = snapshot.headers[name]
                /\ response.headers["access-control-allow-origin"] = "*"

\* A snapshot with an Access-Control-Allow-Origin of its own, overwritten.
C26_Witness ==
    \E r \in Slots :
        /\ Settled(r)
        /\ trace[r] = <<"handleMCPRequest">>
        /\ ~thrown[r].raised
        /\ wres[r].resolved
        /\ "access-control-allow-origin" \in DOMAIN getResponse(wres[r]).headers
        /\ getResponse(wres[r]).headers["access-control-allow-origin"] = "https://app.example"
        /\ "content-type" \in DOMAIN out[r].response.headers
        /\ out[r].response.status = 403

\* C27: an OPTIONS request, to /mcp too, is answered at once by handleOptions with
\* the global CORS headers; no transport is connected and no response object used
\* for it, and no request is answered by the preflight branch of handleMCPRequest.
C27_PreflightIsGlobal ==
    \A r \in Slots :
        /\ (req[r].method = "OPTIONS" /\ pc[r] # "idle") =>
              /\ trace[r] = <<"handleOptions">>
              /\ out[r] = Fulfilled(handleOptions)
              /\ out[r].response.headers["access-control-allow-headers"] =
                    "Content-Type, Authorization, Mcp-Session-Id"
              /\ connected # r
              /\ wres[r] = NewWorkerServerResponse
              /\ streams[r] = {}
        /\ Settled(r) => out[r].response # mcpPreflight

C27_Witness ==
    \E r \in Slots :
        /\ req[r].method = "OPTIONS"
        /\ req[r].pathname = "/mcp"
        /\ out[r] = Fulfilled(handleOptions)
        /\ connected # r

\* The status the writeHead calls of a log leave: that of the last one, 200 without.
RECURSIVE StatusAfter(_, _)
StatusAfter(status, log) ==
    IF log = <<>> THEN status
    ELSE StatusAfter(IF Head(log).op = "writeHead" THEN Head(log).statusCode ELSE status,
                     Tail(log))

\* C25: the status of the materialized response is that of the last writeHead made
\* before the first end(), and 200 when there was none; no other call has a part in
\* it (and statusCode follows the writeHead calls in the same way at any time).
C25_StatusIsLastWriteHead ==
    /\ res.statusCode = StatusAfter(200, calls)
    /\ res.resolved => res.response.status = StatusAfter(200, UntilFirstEnd(calls))

\* Two writeHead calls with different statuses, end(), and a writeHead after it.
C25_Witness ==
    /\ Len(calls) >= 4
    /\ calls[1].op = "writeHead"
    /\ calls[2].op = "writeHead"
    /\ calls[1].statusCode # calls[2].statusCode
    /\ calls[3].op = "end"
    /\ calls[4].op = "writeHead"
    /\ calls[4].statusCode # calls[2].statusCode
    /\ res.response.status = calls[2].statusCode

\* The calls of a log but the last.
Front(log) == SubSeq(log, 1, Len(log) - 1)

\* C30: write returns true and adds its chunk, as one chunk, at the end of the
\* buffer, before end() and after it; the status, the headers, the chunks buffered
\* before and the completion promise are as they were before the call.
C30_WriteAppendsOneChunk ==
    (calls # <<>> /\ calls[Len(calls)].op = "write") =>
        LET call == calls[Len(calls)]
            before == Replay(NewWorkerServerResponse, Front(calls))
        IN  /\ call.returned = TRUE
            /\ res.chunks = Append(before.chunks, ExpectedBytes(call.chunk))
            /\ res.statusCode = before.statusCode
            /\ res.headers = before.headers
            /\ res.headersSent = before.headersSent
            /\ res.resolved = before.resolved
            /\ res.response = before.response

\* A write after end(), on a response that has a chunk, a status and a header.
C30_Witness ==
    /\ Len(calls) >= 4
    /\ calls[1].op = "writeHead"
    /\ calls[1].headers # Undefined
    /\ calls[2].op = "write"
    /\ calls[3].op = "end"
    /\ calls[4].op = "write"
    /\ Len(res.chunks) >= 3
    /\ res.resolved

\* The lower-case name of each header name the model sends.
Folded(name) ==
    CASE name \in {"Content-Type", "content-type", "CONTENT-TYPE"} -> "content-type"
      [] name = "Mcp-Session-Id" -> "mcp-session-id"
      [] name = "ACCEPT" -> "accept"

\* The values of the header lines of one name, in the order sent, joined with ", ".
RECURSIVE SentValue(_, _)
SentValue(sent, folded) ==
    IF sent = <<>> THEN ""
    ELSE LET rest == SentValue(Tail(sent), folded)
         IN  IF Folded(Head(sent)[1]) # folded THEN rest
             ELSE IF rest = "" THEN Head(sent)[2]
             ELSE Head(sent)[2] \o ", " \o rest

\* C28: the inbound proxy has the method and the URL of the request, and a header
\* map with lower-case keys only, in which every header line of the request is found
\* under the lower-case form of its name, whatever the case it was sent in.
C28_ProxyMirrorsRequest ==
    incoming.message.method # "" =>
        LET request == incoming.request
            message == incoming.message
        IN  /\ message.method = request.method
            /\ message.url = request.url
            /\ DOMAIN message.headers \subseteq {"content-type", "mcp-session-id", "accept"}
            /\ \A i \in 1..Len(request.sent) :
                  /\ Folded(request.sent[i][1]) \in DOMAIN message.headers
                  /\ message.headers[Folded(request.sent[i][1])] =
                        SentValue(request.sent, Folded(request.sent[i][1]))
            /\ \A key \in DOMAIN message.headers :
                  \E i \in 1..Len(request.sent) : Folded(request.sent[i][1]) = key

\* One header sent twice, in two letter cases, and found under its lower-case name.
C28_Witness ==
    /\ incoming.message.method = "POST"
    /\ Len(incoming.request.sent) = 2
    /\ incoming.request.sent[1][1] = "CONTENT-TYPE"
    /\ incoming.request.sent[2][1] = "Content-Type"
    /\ incoming.message.headers["content-type"] = "application/json, text/event-stream"

\* The listeners registered for an event by the calls of a log, in call order.
Registered(log, event) ==
    LET ons == SelectSeq(log, LAMBDA c : IF c.op = "on" THEN c.event = event ELSE FALSE)
    IN  [j \in 1..Len(ons) |-> ons[j].listener]

\* The listener calls that the first n calls of a log make: each emit calls the
\* listeners registered for its event before it, in the order they were registered.
RECURSIVE ListenerCalls(_, _)
ListenerCalls(log, n) ==
    IF n = 0 THEN <<>>
    ELSE LET c == log[n]
             listeners == Registered(SubSeq(log, 1, n - 1), c.event)
         IN  ListenerCalls(log, n - 1) \o
             (IF c.op = "emit"
              THEN [j \in 1..Len(listeners) |->
                       [listener |-> listeners[j], event |-> c.event, args |-> c.args]]
              ELSE <<>>)

\* C29: the listener calls made on a response are those of its emit calls, each
\* calling the listeners registered through on() for its event, in registration
\* order and with its arguments; emit returns true exactly when the event has such
\* a listener; no other method calls a listener.
C29_OnlyEmitCallsListeners ==
    /\ res.heard = ListenerCalls(calls, Len(calls))
    /\ \A i \in 1..Len(calls) :
          calls[i].op = "emit" =>
              (calls[i].returned <=>
                  Registered(SubSeq(calls, 1, i - 1), calls[i].event) # <<>>)

\* Two listeners of one event, end(), then the event emitted.
C29_Witness ==
    /\ Len(calls) = 4
    /\ calls[1] = [op |-> "on", event |-> "close", listener |-> 2]
    /\ calls[2] = [op |-> "on", event |-> "close", listener |-> 1]
    /\ calls[3].op = "end"
    /\ calls[4].op = "emit"
    /\ calls[4].event = "close"
    /\ calls[4].returned
    /\ Len(res.heard) = 2
    /\ res.heard[1].listener = 2
    /\ res.heard[2].listener = 1
    /\ res.resolved

====
